---- MODULE Spec2Model ----
(***************************************************************************)
(* Model of repo-to-presentation: the request handler of                   *)
(* src/app/api/generate-runofshow/route.ts (the class-based POST and the   *)
(* inline POST kept in the same file), the GitHubAnalyzer of               *)
(* src/app/services/prompts.ts and the response normalizer.                *)
(*                                                                         *)
(* Texts are sequences of tokens.  A token stands for a fixed piece of     *)
(* text; the regular expressions and JSON.parse of the source are          *)
(* evaluated on the token sequence.                                        *)
(*   "{" "}" "[" "]" ","   the JSON punctuation                            *)
(*   "t:" "o:" "s:" "k:"   the keys "title": "overview": "sections": "x":  *)
(*   "v"    the string literal "x"                                         *)
(*   "e"    the string literal ""                                          *)
(*   "vF"   a string literal holding a fence marker between a and b        *)
(*   "vab"  the string literal "ab"                                        *)
(*   "N"    the literal null                                               *)
(*   "F"    the fence marker (3 backquotes)   "j"   the word json           *)
(*   "n"    a newline                  "_"   a blank                       *)
(*   "w"    a word of prose                                                *)
(***************************************************************************)
EXTENDS Integers, Sequences, FiniteSets, TLC

VARIABLES impl, pc, body, apiKey, up, calls, urlRes, analysis, prompt, gen,
          text, outcome, resp, peer

vars == <<impl, pc, body, apiKey, up, calls, urlRes, analysis, prompt, gen,
          text, outcome, resp, peer>>

(***************************************************************************)
(* Bounds of the model.                                                    *)
(***************************************************************************)
MaxProse == 1
MaxSections == 2
MaxExtra == 1
MaxPath == 6

Min(a, b) == IF a < b THEN a ELSE b

RECURSIVE SeqsUpTo(_, _)
SeqsUpTo(S, n) ==
  IF n = 0 THEN {<<>>}
  ELSE LET shorter == SeqsUpTo(S, n - 1)
       IN  shorter \cup {Append(s, x) : s \in shorter, x \in S}

(***************************************************************************)
(* JSON values, as JSON.parse builds them.                                 *)
(***************************************************************************)
Val(t, str, ks, its) == [type |-> t, s |-> str, keys |-> ks, items |-> its]
Undefined == Val("undefined", "", <<>>, <<>>)
Null == Val("null", "", <<>>, <<>>)
Str(x) == Val("string", x, <<>>, <<>>)
Arr(its) == Val("array", "", <<>>, its)
Obj(ks, its) == Val("object", "", ks, its)

\* The text of each string-literal token.
Literal == [v |-> "x", e |-> "", vF |-> "a-fence-b", vab |-> "ab"]
LiteralTokens == {"v", "e", "vF", "vab"}
\* The property name of each key token.
KeyName == [t |-> "title", o |-> "overview", s |-> "sections", k |-> "x"]
KeyTokens == {"t:", "o:", "s:", "k:"}
KeyOf(tok) == CASE tok = "t:" -> KeyName.t [] tok = "o:" -> KeyName.o
                [] tok = "s:" -> KeyName.s [] OTHER -> KeyName.k

\* JavaScript truthiness of a parsed value.
Truthy(v) == \/ v.type \in {"object", "array"}
             \/ v.type = "string" /\ v.s # ""

\* Property read v[k]: the last member of that name, undefined otherwise.
Get(v, k) ==
  LET hits == {i \in 1..Len(v.keys) : v.keys[i] = k}
  IN  IF v.type = "object" /\ hits # {}
      THEN v.items[CHOOSE i \in hits : \A h \in hits : h <= i]
      ELSE Undefined

IsArray(v) == v.type = "array"

(***************************************************************************)
(* JSON.parse on a token sequence.                                         *)
(***************************************************************************)
IsSpace(tok) == tok \in {"_", "n"}
NotSpace(tok) == ~IsSpace(tok)

ParseFail == [ok |-> FALSE, val |-> Undefined, next |-> 0]
ParseOk(v, i) == [ok |-> TRUE, val |-> v, next |-> i]

RECURSIVE ParseValue(_, _), ParseMembers(_, _, _, _), ParseElems(_, _, _)
ParseValue(s, i) ==
  IF i > Len(s) THEN ParseFail
  ELSE IF s[i] \in LiteralTokens THEN ParseOk(Str(Literal[s[i]]), i + 1)
  ELSE IF s[i] = "N" THEN ParseOk(Null, i + 1)
  ELSE IF s[i] = "{"
       THEN IF i + 1 <= Len(s) /\ s[i + 1] = "}"
            THEN ParseOk(Obj(<<>>, <<>>), i + 2)
            ELSE ParseMembers(s, i + 1, <<>>, <<>>)
  ELSE IF s[i] = "["
       THEN IF i + 1 <= Len(s) /\ s[i + 1] = "]"
            THEN ParseOk(Arr(<<>>), i + 2)
            ELSE ParseElems(s, i + 1, <<>>)
  ELSE ParseFail

ParseMembers(s, i, ks, its) ==
  IF i > Len(s) \/ s[i] \notin KeyTokens THEN ParseFail
  ELSE LET v == ParseValue(s, i + 1)
       IN  IF ~v.ok \/ v.next > Len(s) THEN ParseFail
           ELSE IF s[v.next] = "}"
                THEN ParseOk(Obj(Append(ks, KeyOf(s[i])), Append(its, v.val)),
                             v.next + 1)
           ELSE IF s[v.next] = ","
                THEN ParseMembers(s, v.next + 1, Append(ks, KeyOf(s[i])),
                                  Append(its, v.val))
           ELSE ParseFail

ParseElems(s, i, its) ==
  LET v == ParseValue(s, i)
  IN  IF ~v.ok \/ v.next > Len(s) THEN ParseFail
      ELSE IF s[v.next] = "]" THEN ParseOk(Arr(Append(its, v.val)), v.next + 1)
      ELSE IF s[v.next] = "," THEN ParseElems(s, v.next + 1, Append(its, v.val))
      ELSE ParseFail

\* JSON.parse: one value, blanks allowed around the tokens, nothing after it.
JsonParse(toks) ==
  LET s == SelectSeq(toks, NotSpace)
      r == ParseValue(s, 1)
  IN  IF r.ok /\ r.next = Len(s) + 1 THEN [ok |-> TRUE, val |-> r.val]
      ELSE [ok |-> FALSE, val |-> Undefined]

(***************************************************************************)
(* JSON.stringify of an outline-shaped object.                             *)
(***************************************************************************)
\* The items joined by sep: "," for JSON.stringify(o), "," and a line break
\* with indentation for JSON.stringify(o, null, 2).
RECURSIVE SerializeItems(_, _)
SerializeItems(its, sep) ==
  IF its = <<>> THEN <<>>
  ELSE IF Len(its) = 1 THEN its[1]
  ELSE its[1] \o sep \o SerializeItems(Tail(its), sep)

Compact == <<",">>
Indented == <<",", "n", "_">>

RECURSIVE Repeat(_, _)
Repeat(x, n) == IF n = 0 THEN <<>> ELSE <<x>> \o Repeat(x, n - 1)

\* An outline candidate: title and overview are a literal token or "absent";
\* sections is "absent", a literal token (not an array) or "array" with nsec
\* (empty) section objects.
SerializeSections(o, sep) ==
  IF o.sections = "array"
  THEN <<"s:", "[">> \o SerializeItems(Repeat(<<"{", "}">>, o.nsec), sep)
       \o <<"]">>
  ELSE <<"s:", o.sections>>

SerializeWith(o, sep) ==
  LET members ==
        (IF o.title = "absent" THEN <<>> ELSE << <<"t:", o.title>> >>) \o
        (IF o.overview = "absent" THEN <<>> ELSE << <<"o:", o.overview>> >>) \o
        (IF o.sections = "absent" THEN <<>>
         ELSE << SerializeSections(o, sep) >>)
  IN  <<"{">> \o SerializeItems(members, sep) \o <<"}">>

Serialize(o) == SerializeWith(o, Compact)

(***************************************************************************)
(* The text operations of parseClaudeResponse.                             *)
(***************************************************************************)
\* The tokens of s at the positions that satisfy Keep.
Indices(s) == [i \in 1..Len(s) |-> i]
KeepAt(s, Keep(_)) ==
  LET idx == SelectSeq(Indices(s), Keep)
  IN  [k \in 1..Len(idx) |-> s[idx[k]]]

\* text.replace(fence-json-newline?, ""), the first replace of cleanedText:
\* removes each fence followed by json, and one line break after it.
StripJsonFence(s) ==
  KeepAt(s, LAMBDA i :
    /\ ~(s[i] = "F" /\ i < Len(s) /\ s[i + 1] = "j")
    /\ ~(s[i] = "j" /\ i > 1 /\ s[i - 1] = "F")
    /\ ~(s[i] = "n" /\ i > 2 /\ s[i - 1] = "j" /\ s[i - 2] = "F"))

\* text.replace(fence-newline?, ""), the second replace: removes each fence
\* and one line break after it, also a fence inside a string literal.
StripFence(s) ==
  LET kept == KeepAt(s, LAMBDA i :
                /\ s[i] # "F"
                /\ ~(s[i] = "n" /\ i > 1 /\ s[i - 1] = "F"))
  IN  [i \in 1..Len(kept) |-> IF kept[i] = "vF" THEN "vab" ELSE kept[i]]

\* String.prototype.trim
Trim(s) ==
  LET solid == {i \in 1..Len(s) : ~IsSpace(s[i])}
      first == CHOOSE i \in solid : \A h \in solid : i <= h
      last == CHOOSE i \in solid : \A h \in solid : h <= i
  IN  IF solid = {} THEN <<>> ELSE SubSeq(s, first, last)

cleanedText(t) == Trim(StripFence(StripJsonFence(t)))

\* text.match(/\{[\s\S]*\}/): from the first "{" to the last "}".
jsonMatch(t) ==
  LET opens == {i \in 1..Len(t) : t[i] = "{"}
      closes == {i \in 1..Len(t) : t[i] = "}"}
      first == CHOOSE i \in opens : \A h \in opens : i <= h
      last == CHOOSE i \in closes : \A h \in closes : h <= i
  IN  IF opens # {} /\ closes # {} /\ first < last
      THEN [found |-> TRUE, span |-> SubSeq(t, first, last)]
      ELSE [found |-> FALSE, span |-> <<>>]

\* The condition of the if inside the try block.
ShapeOk(v) == /\ Truthy(Get(v, "title"))
              /\ Truthy(Get(v, "overview"))
              /\ IsArray(Get(v, "sections"))

\* The try block: the value returned, or the jump to the catch block (a
\* parse error, a property read on null, or the thrown shape error).
DirectParse(t) ==
  LET p == JsonParse(cleanedText(t))
  IN  IF p.ok /\ p.val.type # "null" /\ ShapeOk(p.val)
      THEN [returned |-> TRUE, val |-> p.val]
      ELSE [returned |-> FALSE, val |-> Undefined]

(***************************************************************************)
(* Repository URLs.  A URL is a sequence of tokens: "https:" "http:" "/",  *)
(* "G" (the text github.com), "E" (the text example.com), "a" (a name of   *)
(* letters), ".git", and "_" (a blank).                                    *)
(***************************************************************************)
\* Tokens all of whose characters are in the class [\w\-\.].
WordTokens == {"a", ".git", "G", "E"}

\* The end of the maximal run of tokens other than "/" that starts at
\* position i (i - 1 when the run is empty).
RunEnd(u, i) ==
  LET slashes == {j \in i..Len(u) : u[j] = "/"}
  IN  IF slashes = {} THEN (IF i > Len(u) THEN i - 1 ELSE Len(u))
      ELSE (CHOOSE j \in slashes : \A h \in slashes : j <= h) - 1

\* One attempt of /github\.com\/([^\/]+)\/([^\/]+)(?:\.git)?(?:\/.*)?$/ with
\* github.com at position i: the owner is the whole run up to the next "/",
\* the repo the whole run after it.
MatchAt(u, i) ==
  LET oEnd == RunEnd(u, i + 2)
      rEnd == RunEnd(u, oEnd + 2)
  IN  IF /\ i + 1 <= Len(u) /\ u[i] = "G" /\ u[i + 1] = "/"
         /\ oEnd >= i + 2
         /\ oEnd + 1 <= Len(u)
         /\ rEnd >= oEnd + 2
      THEN [ok |-> TRUE, owner |-> SubSeq(u, i + 2, oEnd),
            repo |-> SubSeq(u, oEnd + 2, rEnd)]
      ELSE [ok |-> FALSE, owner |-> <<>>, repo |-> <<>>]

\* repoUrl.match(githubUrlRegex): the leftmost position that matches.
UrlMatch(u) ==
  LET hits == {i \in 1..Len(u) : MatchAt(u, i).ok}
  IN  IF hits = {} THEN [ok |-> FALSE, owner |-> <<>>, repo |-> <<>>]
      ELSE MatchAt(u, CHOOSE i \in hits : \A h \in hits : i <= h)

\* repo.replace(/\.git$/, "")
StripGit(r) ==
  IF r # <<>> /\ r[Len(r)] = ".git" THEN SubSeq(r, 1, Len(r) - 1) ELSE r

MsgInvalidUrl ==
  "Invalid GitHub URL format. Please provide a valid GitHub repository URL."

\* A parseRepoUrl without the replace of the trailing .git.
parseRepoUrlMutantNoStrip(u) ==
  LET m == UrlMatch(u)
  IN  [ok |-> m.ok, owner |-> m.owner, repo |-> m.repo]
\* GitHubAnalyzer.parseRepoUrl (the inline analyzeRepository has the same
\* three statements): ok = FALSE stands for the thrown error.
parseRepoUrl(u) ==
  LET m == UrlMatch(u)
  IN  [ok |-> m.ok, owner |-> m.owner, repo |-> StripGit(m.repo)]
NoUrlRes == [ok |-> FALSE, owner |-> <<>>, repo |-> <<>>]

\* A pattern that is not anchored at the start of the URL: it accepts what
\* the regular expression of parseRepoUrl matches.
AcceptancePatternMutantUnanchored(u) == UrlMatch(u).ok
\* /^https:\/\/github\.com\/[\w\-\.]+\/[\w\-\.]+\/?$/.test(repoUrl)
AcceptancePattern(u) ==
  LET oEnd == RunEnd(u, 6)
      rEnd == RunEnd(u, oEnd + 2)
  IN  /\ Len(u) >= 8
      /\ SubSeq(u, 1, 5) = <<"https:", "/", "/", "G", "/">>
      /\ oEnd >= 6
      /\ oEnd + 1 <= Len(u)
      /\ rEnd >= oEnd + 2
      /\ \A i \in (6..oEnd) \cup ((oEnd + 2)..rEnd) : u[i] \in WordTokens
      /\ \/ rEnd = Len(u)
         \/ rEnd + 1 = Len(u)

(***************************************************************************)
(* The code-hosting API as the analyzer sees it.  File names are sequences *)
(* of the parts between dots ("index.js" is <<"index", "js">>); a content  *)
(* is the path it was read from and its length in characters.              *)
(***************************************************************************)
MAX_FILE_SIZE == 50000
MAX_CONTENT_SIZE == 3000
MAX_README_SIZE == 5000
LISTING_LIMIT == 30

README_FILES == << <<"README", "md">>, <<"readme", "md">>, <<"README", "rst">>,
                   <<"README", "txt">>, <<"README">> >>
CONFIG_FILES == << <<"package", "json">>, <<"pyproject", "toml">>,
                   <<"Cargo", "toml">>, <<"go", "mod">>, <<"pom", "xml">> >>

Content(path, n) == [src |-> path, len |-> n]
EmptyContent == Content(<<>>, 0)
\* A slice that keeps one character too many.
SliceMutantOffByOne(c, k) == Content(c.src, Min(c.len, k + 1))
\* content.slice(0, k)
Slice(c, k) == Content(c.src, Min(c.len, k))

\* The result of one repos.getContent lookup: "file" (data has a content of
\* len characters; valid tells whether it is JSON text), "dir" (data has no
\* content) or "error" (the request rejects).
Lookup(k, n, v) == [kind |-> k, len |-> n, valid |-> v]

\* An entry of the root listing; ord is the rank of its name under
\* localeCompare, fetch the result of reading the entry by its name.
Entry(t, parts, o, sz, f) ==
  [type |-> t, name |-> parts, ord |-> o, size |-> sz, fetch |-> f]

Call(api, path) == [api |-> api, path |-> path]

\* toLowerCase on the name parts the model uses.
Lower(part) ==
  CASE part = "Dockerfile" -> "dockerfile"
    [] part = "LICENSE" -> "license"
    [] part = "Cargo" -> "cargo"
    [] part = "README" -> "readme"
    [] part = "JS" -> "js"
    [] OTHER -> part

isKeyFile(name) ==
  LET n == Len(name)
      low == [i \in 1..n |-> Lower(name[i])]
  IN  \/ /\ n = 2
         /\ low[1] \in {"index", "main", "app", "server"}
         /\ low[2] \in {"js", "ts", "jsx", "tsx", "py", "go", "rs", "java"}
      \/ /\ n >= 3
         /\ low[n - 1] \in {"config", "conf"}
         /\ low[n] \in {"js", "ts", "json", "yaml", "yml", "toml"}
      \/ /\ n = 1
         /\ low[1] \in {"dockerfile", "makefile", "rakefile"}
      \/ /\ n = 2
         /\ low[1] \in {"changelog", "contributing", "license", "authors",
                        "contributors"}
         /\ low[2] \in {"md", "txt", "rst"}
      \/ low \in { <<"package", "json">>, <<"requirements", "txt">>,
                   <<"go", "mod">>, <<"cargo", "toml">>, <<"gemfile">>,
                   <<"composer", "json">> }

\* GitHubAnalyzer.getFileType
getFileType(name) ==
  LET ext == IF name = <<>> THEN "" ELSE Lower(name[Len(name)])
  IN  CASE ext = "js" -> "JavaScript"
        [] ext = "ts" -> "TypeScript"
        [] ext = "jsx" -> "React"
        [] ext = "tsx" -> "React TypeScript"
        [] ext = "py" -> "Python"
        [] ext = "json" -> "Configuration"
        [] ext = "md" -> "Documentation"
        [] OTHER -> "Other"

\* getFileType of the inline variant in route.ts.
inlineGetFileType(name) ==
  LET ext == IF name = <<>> THEN "" ELSE Lower(name[Len(name)])
  IN  CASE ext = "js" -> "JavaScript"
        [] ext = "ts" -> "TypeScript"
        [] ext = "jsx" -> "React"
        [] ext = "tsx" -> "React TypeScript"
        [] ext = "py" -> "Python"
        [] ext = "go" -> "Go"
        [] ext = "rs" -> "Rust"
        [] ext = "java" -> "Java"
        [] ext = "cpp" -> "C++"
        [] ext = "c" -> "C"
        [] ext = "cs" -> "C#"
        [] ext = "php" -> "PHP"
        [] ext = "rb" -> "Ruby"
        [] ext = "swift" -> "Swift"
        [] ext = "kt" -> "Kotlin"
        [] ext \in {"json", "yaml", "yml", "toml"} -> "Configuration"
        [] ext = "html" -> "HTML"
        [] ext = "css" -> "Stylesheet"
        [] ext = "scss" -> "Sass"
        [] ext = "less" -> "Less"
        [] ext \in {"md", "rst", "txt"} -> "Documentation"
        [] OTHER -> "Other"

\* The comparator given to contents.sort.
compare(a, b) ==
  IF a.type # b.type THEN (IF a.type = "dir" THEN -1 ELSE 1)
  ELSE IF a.ord < b.ord THEN -1
  ELSE IF a.ord > b.ord THEN 1
  ELSE 0

\* Array.prototype.sort as an insertion sort: each entry goes after the last
\* earlier entry that the comparator does not put behind it.  The order in
\* which sort hands a pair to the comparator is the engine's choice o:
\* "ab" (the earlier entry first) or "ba" (the entry being placed first).
\* Both give the same result where the comparator is consistent.
InsertPos(acc, x, o) ==
  LET stops == {j \in 1..Len(acc) :
                  IF o = "ab" THEN compare(acc[j], x) <= 0
                  ELSE compare(x, acc[j]) >= 0}
  IN  IF stops = {} THEN 0 ELSE CHOOSE j \in stops : \A h \in stops : h <= j

Insert(acc, x, o) ==
  LET j == InsertPos(acc, x, o)
  IN  SubSeq(acc, 1, j) \o <<x>> \o SubSeq(acc, j + 1, Len(acc))

\* Inserts s[lo..hi] into acc from left to right.  The range is halved to
\* keep the evaluation shallow; the order of insertion is lo, lo+1, .., hi.
\* The length test always holds: it has the left half evaluated first.
RECURSIVE SortFrom(_, _, _, _, _)
SortFrom(s, lo, hi, acc, o) ==
  IF lo > hi THEN acc
  ELSE IF lo = hi THEN Insert(acc, s[lo], o)
  ELSE LET mid == (lo + hi) \div 2
           left == SortFrom(s, lo, mid, acc, o)
       IN  IF Len(left) = Len(acc) + (mid - lo + 1)
           THEN SortFrom(s, mid + 1, hi, left, o)
           ELSE left

\* A sort without the slice after it.
sortedContentsMutantKeepAll(entries, o) ==
  SortFrom(entries, 1, Len(entries), <<>>, o)
\* contents.sort(...).slice(0, 30)
sortedContents(entries, o) ==
  LET sorted == SortFrom(entries, 1, Len(entries), <<>>, o)
  IN  SubSeq(sorted, 1, Min(Len(sorted), LISTING_LIMIT))

\* The fileStructure line `${item.type}: ${item.name}${"/" for a dir}`.
StructureLine(item) ==
  [type |-> item.type, name |-> item.name, slash |-> item.type = "dir"]

\* The condition under which the loop reads an entry as a key file.
Eligible(item) ==
  /\ item.type = "file"
  /\ isKeyFile(item.name)
  /\ item.size # 0
  /\ item.size < MAX_FILE_SIZE
  /\ item.size > 0

\* The first lookup, from position i on, that yields file content; n is the
\* number of lookups issued.  For package.json a content that is not JSON
\* makes JSON.parse throw inside the try, and the loop goes on.
RECURSIVE FirstFound(_, _, _)
FirstFound(results, i, needsJson) ==
  IF i > Len(results) THEN [found |-> FALSE, at |-> 0, n |-> Len(results)]
  ELSE IF /\ results[i].kind = "file"
          /\ (needsJson /\ i = 1) => results[i].valid
       THEN [found |-> TRUE, at |-> i, n |-> i]
  ELSE FirstFound(results, i + 1, needsJson)

\* Lookups of which each is issued a second time.
LookupCallsMutantRetry(files, n) ==
  [i \in 1..(2 * n) |-> Call("repos.getContent", files[(i + 1) \div 2])]
LookupCalls(files, n) == [i \in 1..n |-> Call("repos.getContent", files[i])]

\* A fetchReadme that goes on to the last file name after a success.
fetchReadmeMutantNoStop(results) ==
  LET f == FirstFound(results, 1, FALSE)
  IN  [value |-> IF f.found THEN Content(README_FILES[f.at], results[f.at].len)
                 ELSE EmptyContent,
       calls |-> LookupCalls(README_FILES, Len(README_FILES))]
\* fetchReadme
fetchReadme(results) ==
  LET f == FirstFound(results, 1, FALSE)
  IN  [value |-> IF f.found THEN Content(README_FILES[f.at], results[f.at].len)
                 ELSE EmptyContent,
       calls |-> LookupCalls(README_FILES, f.n)]

\* fetchConfigFile: null, the parsed package.json, or {type, content}.
NoConfig == [kind |-> "null", type |-> <<>>, len |-> 0]
\* A fetchConfigFile that returns a package.json without parsing it.
fetchConfigFileMutantNoParse(results) ==
  LET f == FirstFound(results, 1, FALSE)
  IN  [value |-> IF ~f.found THEN NoConfig
                 ELSE [kind |-> IF f.at = 1 THEN "parsed" ELSE "raw",
                       type |-> CONFIG_FILES[f.at],
                       len |-> results[f.at].len],
       calls |-> LookupCalls(CONFIG_FILES, f.n)]
fetchConfigFile(results) ==
  LET f == FirstFound(results, 1, TRUE)
  IN  [value |-> IF ~f.found THEN NoConfig
                 ELSE [kind |-> IF f.at = 1 THEN "parsed" ELSE "raw",
                       type |-> CONFIG_FILES[f.at],
                       len |-> results[f.at].len],
       calls |-> LookupCalls(CONFIG_FILES, f.n)]

\* The getFileType that variant v ("class" or "inline") calls.
FileTypeIn(v, name) ==
  IF v = "class" THEN getFileType(name) ELSE inlineGetFileType(name)

\* The for loop of analyzeFileStructure over the kept entries: one request
\* per eligible entry, one key file per request that yields file content.
KeyFileCalls(items) ==
  LET asked == SelectSeq(items, Eligible)
  IN  [i \in 1..Len(asked) |-> Call("repos.getContent", asked[i].name)]

\* A loop that a failed key-file request ends.
KeyFilesOfMutantAbort(items, v) ==
  LET failedBefore(it) ==
        \E k \in 1..Len(items) :
          /\ Eligible(items[k])
          /\ items[k].fetch.kind = "error"
          /\ \E m \in (k + 1)..Len(items) : items[m].name = it.name
      got == SelectSeq(items, LAMBDA it : /\ Eligible(it)
                                         /\ it.fetch.kind = "file"
                                         /\ ~failedBefore(it))
  IN  [i \in 1..Len(got) |->
         [path |-> got[i].name,
          content |-> Slice(Content(got[i].name, got[i].fetch.len),
                            MAX_CONTENT_SIZE),
          type |-> FileTypeIn(v, got[i].name)]]
KeyFilesOf(items, v) ==
  LET got == SelectSeq(items, LAMBDA it : Eligible(it) /\ it.fetch.kind = "file")
  IN  [i \in 1..Len(got) |->
         [path |-> got[i].name,
          content |-> Slice(Content(got[i].name, got[i].fetch.len),
                            MAX_CONTENT_SIZE),
          type |-> FileTypeIn(v, got[i].name)]]

\* What the listing loop produces from the root listing data.
ProcessContents(root, v) ==
  IF root.kind # "array"
  THEN [fileStructure |-> <<>>, keyFiles |-> <<>>, calls |-> <<>>]
  ELSE LET kept == sortedContents(root.entries, root.callOrder)
       IN  [fileStructure |-> [i \in 1..Len(kept) |-> StructureLine(kept[i])],
            keyFiles |-> KeyFilesOf(kept, v),
            calls |-> KeyFileCalls(kept)]

\* The RepoAnalysis under construction; returned tells whether
\* analyzeRepository has returned it.
NoAnalysis ==
  [returned |-> FALSE, name |-> "", readme |-> EmptyContent,
   packageJson |-> NoConfig, fileStructure |-> <<>>, keyFiles |-> <<>>]

(***************************************************************************)
(* Errors and responses.                                                   *)
(***************************************************************************)
Err(n, m) == [name |-> n, message |-> m]
NoErr == Err("none", "")

MsgMalformed == "Failed to generate properly formatted presentation content"
MsgInlineMalformed ==
  "Failed to generate properly formatted presentation content. Please try again."
MsgInlineNoJson ==
  "Failed to generate structured presentation content. Please try again."
MsgSyntaxError == "Unexpected token in JSON"
MsgInlineUnexpected ==
  "An unexpected error occurred while generating the presentation"

Response(st, msg, ros) == [status |-> st, error |-> msg, runOfShow |-> ros]
NoResp == Response(0, "", Undefined)

\* A catch block that answers 400 whatever the error is.
ClassCatchMutant(e) == Response(400, e.message, Undefined)
\* The catch block of the class-based POST.
ClassCatch(e) ==
  Response(IF e.name = "ValidationError" THEN 400 ELSE 500, e.message,
           Undefined)

NoOutcome == [kind |-> "none", stage |-> 0, val |-> Undefined, err |-> NoErr]
Returned(st, v) == [kind |-> "return", stage |-> st, val |-> v, err |-> NoErr]
Thrown(st, e) == [kind |-> "throw", stage |-> st, val |-> Undefined, err |-> e]

(***************************************************************************)
(* The replies of the generation service that the model draws.             *)
(***************************************************************************)
ProseTokens == {"w", "_", "{", "}"}
Prose == SeqsUpTo(ProseTokens, MaxProse)

Candidates ==
  {o \in [title : {"absent", "v", "e", "vF"}, overview : {"absent", "v", "e"},
          sections : {"absent", "v", "array"}, nsec : 0..MaxSections] :
     o.sections # "array" => o.nsec = 0}

\* Replies that are not a serialized candidate.
OtherBodies ==
  { <<>>, <<"w">>, <<"v">>, <<"N">>, <<"[", "]">>, <<"[", "v", "]">>,
    <<"{", "t:", "}">>, <<"{", "t:", "v", ",", "}">>,
    <<"{", "t:", "v", ",", "t:", "e", ",", "o:", "v", ",", "s:", "[", "]", "}">>,
    <<"{", "t:", "v", ",", "o:", "v", ",", "s:", "[", "]", ",", "k:", "N", "}">> }

Fences == {"none", "json", "bare"}
Wrap(b, f) ==
  CASE f = "json" -> <<"F", "j", "n">> \o b \o <<"n", "F">>
    [] f = "bare" -> <<"F", "n">> \o b \o <<"n", "F">>
    [] OTHER -> b

NoCand == [title |-> "absent", overview |-> "absent", sections |-> "absent",
           nsec |-> 0]
\* svc: what messages.create does: "text" (the first segment is text),
\* "nontext" (the first segment is of another type) or "error" (it rejects).
Reply(isCand, c, b, f, pre, post) ==
  [svc |-> "text", fromCand |-> isCand, cand |-> c, body |-> b, fence |-> f,
   pre |-> pre, post |-> post]
\* The replies with the prose around the body drawn from the set prose.
Replies(prose) ==
  {Reply(TRUE, c, Serialize(c), f, pre, post) :
     c \in Candidates, f \in Fences, pre \in prose, post \in prose}
  \cup
  {Reply(TRUE, c, SerializeWith(c, Indented), "none", <<>>, <<>>) :
     c \in Candidates}
  \cup
  {Reply(FALSE, NoCand, b, f, pre, post) :
     b \in OtherBodies, f \in Fences, pre \in prose, post \in prose}
NoReply == Reply(FALSE, NoCand, <<>>, "none", <<>>, <<>>)
ReplyText(g) == g.pre \o Wrap(g.body, g.fence) \o g.post

(***************************************************************************)
(* Request validation.                                                     *)
(***************************************************************************)
MsgInvalidJson == "Invalid JSON in request body"
MsgUrlRequired == "Repository URL is required and must be a string"
MsgUrlPattern == "Repository URL must be a valid GitHub URL"
MsgConfigRequired == "Presentation configuration is required"
MsgServerConfig == "Server configuration error. Please check API key setup."
MsgDestructure == "Cannot destructure property 'repoUrl' of 'body' as it is null."
MsgNotFound ==
  "Repository not found. Please check that the repository exists and is public."
MsgForbidden ==
  "Access forbidden. The repository may be private or you may have hit rate limits."
MsgFailedAccess == "Failed to access repository: "
\* error.message of a rejected octokit.repos.get, by error.status (0: the
\* error has no status, as when the connection fails).
UpstreamMessage(status) ==
  CASE status = 404 -> "Not Found"
    [] status = 403 -> "API rate limit exceeded"
    [] status = 500 -> "Server Error"
    [] OTHER -> "fetch failed"
\* The template literal that prepends MsgFailedAccess to the message m.
FailedAccess(m) ==
  CASE m = "Not Found" -> "Failed to access repository: Not Found"
    [] m = "API rate limit exceeded" ->
         "Failed to access repository: API rate limit exceeded"
    [] m = "Server Error" -> "Failed to access repository: Server Error"
    [] OTHER -> "Failed to access repository: fetch failed"
MsgUpstream == "upstream message"
MsgUnexpectedType == "Unexpected response type from Claude"
MsgInlineGenFailed ==
  "Failed to generate presentation content. Please try again."

\* A request body: json is "invalid" (request.json() rejects), "null" (the
\* JSON text null) or "object"; repoUrl.kind is "missing", "nonstring" or
\* "string"; config.kind is "missing", "nonobject" or "object".
\* The values of PresentationConfig.audience and .timeConstraint.
Audiences == {"conference", "internal", "client", "interview", "workshop"}
TimeConstraints == {"5min", "15min", "30min", "1hour"}
\* A config of the request body; kind is "missing", "nonobject" or "object".
Config(ck, a, t, qa, demo) ==
  [kind |-> ck, audience |-> a, timeConstraint |-> t, includeQA |-> qa,
   includeLiveDemo |-> demo]
DefaultConfig(ck) == Config(ck, "conference", "15min", TRUE, TRUE)
Body(j, uk, u, ck) ==
  [json |-> j, repoUrl |-> [kind |-> uk, s |-> u], config |-> DefaultConfig(ck)]

\* A validateRequest that reports the missing key as a ValidationError.
validateRequestMutantKeyAsInput(b, key) ==
  IF b.json = "invalid" THEN Err("ValidationError", MsgInvalidJson)
  ELSE IF b.json = "null" THEN Err("TypeError", MsgDestructure)
  ELSE IF b.repoUrl.kind # "string" \/ b.repoUrl.s = <<>>
       THEN Err("ValidationError", MsgUrlRequired)
  ELSE IF ~AcceptancePattern(b.repoUrl.s)
       THEN Err("ValidationError", MsgUrlPattern)
  ELSE IF b.config.kind # "object"
       THEN Err("ValidationError", MsgConfigRequired)
  ELSE IF ~key THEN Err("ValidationError", MsgServerConfig)
  ELSE NoErr
\* validateRequest: the error thrown, NoErr when the body is returned.
validateRequest(b, key) ==
  IF b.json = "invalid" THEN Err("ValidationError", MsgInvalidJson)
  ELSE IF b.json = "null" THEN Err("TypeError", MsgDestructure)
  ELSE IF b.repoUrl.kind # "string" \/ b.repoUrl.s = <<>>
       THEN Err("ValidationError", MsgUrlRequired)
  ELSE IF ~AcceptancePattern(b.repoUrl.s)
       THEN Err("ValidationError", MsgUrlPattern)
  ELSE IF b.config.kind # "object"
       THEN Err("ValidationError", MsgConfigRequired)
  ELSE IF ~key THEN Err("Error", MsgServerConfig)
  ELSE NoErr

\* await validateRequest(request) in the class-based POST.
ValidateRequest ==
  /\ pc = "start"
  /\ impl = "class"
  /\ LET e == validateRequest(body, apiKey)
     IN  IF e = NoErr
         THEN /\ pc' = "analyze"
              /\ resp' = resp
         ELSE /\ pc' = "done"
              /\ resp' = ClassCatch(e)
  /\ UNCHANGED <<impl, body, apiKey, up, calls, urlRes, analysis, gen, text,
                 outcome, prompt,
                 peer>>

\* The catch block at the end of the inline POST; dev is
\* NODE_ENV === 'development'.
InlineOuterCatch(e, dev) ==
  Response(500, IF dev THEN e.message ELSE MsgInlineUnexpected, Undefined)

\* The validation statements at the start of the inline POST.
InlineValidate ==
  /\ pc = "start"
  /\ impl = "inline"
  /\ \E dev \in BOOLEAN :
       IF body.json = "invalid"
       THEN resp' = InlineOuterCatch(Err("Error", MsgInvalidJson), dev)
       ELSE IF body.json = "null"
            THEN resp' = InlineOuterCatch(Err("TypeError", MsgDestructure), dev)
       ELSE IF body.repoUrl.kind # "string" \/ body.repoUrl.s = <<>>
            THEN resp' = Response(400, MsgUrlRequired, Undefined)
       ELSE IF body.config.kind # "object"
            THEN resp' = Response(400, MsgConfigRequired, Undefined)
       ELSE IF ~apiKey
            THEN resp' = Response(500, MsgServerConfig, Undefined)
       ELSE resp' = resp
  /\ pc' = IF resp' = resp THEN "analyze" ELSE "done"
  /\ UNCHANGED <<impl, body, apiKey, up, calls, urlRes, analysis, gen, text,
                 outcome, prompt,
                 peer>>

(***************************************************************************)
(* analyzeRepository: the class method and the inline function.            *)
(***************************************************************************)
\* What POST answers when analyzeRepository throws e: the class-based POST
\* in its catch block, the inline POST in the catch around the call.
AnalysisFailure(v, e) ==
  IF v = "class" THEN ClassCatch(e) ELSE Response(400, e.message, Undefined)

\* parseRepoUrl called on its own.
CallParseRepoUrl ==
  /\ pc = "call"
  /\ urlRes' = parseRepoUrl(body.repoUrl.s)
  /\ pc' = "called"
  /\ UNCHANGED <<impl, body, apiKey, up, calls, analysis, gen, text, outcome,
                 resp, prompt,
                 peer>>

\* analyzeRepository(repoUrl.trim()) up to the first request.
AnalyzeRepositoryStart ==
  /\ pc = "analyze"
  /\ urlRes' = parseRepoUrl(Trim(body.repoUrl.s))
  /\ IF urlRes'.ok
     THEN /\ pc' = "metadata"
          /\ resp' = resp
     ELSE /\ pc' = "done"
          /\ resp' = AnalysisFailure(impl, Err("Error", MsgInvalidUrl))
  /\ UNCHANGED <<impl, body, apiKey, up, calls, analysis, gen, text, outcome,
                 prompt,
                 peer>>

\* A catch callback that has the generic message for every status.
MetadataErrorMutantGeneric(status) ==
  Err("Error", FailedAccess(UpstreamMessage(status)))
\* The error that the catch callback of octokit.repos.get throws.
MetadataError(status) ==
  IF status = 404 THEN Err("Error", MsgNotFound)
  ELSE IF status = 403 THEN Err("Error", MsgForbidden)
  ELSE Err("Error", FailedAccess(UpstreamMessage(status)))

\* fetchRepositoryData (inline: the octokit.repos.get statement).
FetchRepositoryData ==
  /\ pc = "metadata"
  /\ calls' = Append(calls, Call("repos.get", urlRes.repo))
  /\ IF up.meta = 200
     THEN /\ analysis' = [analysis EXCEPT !.name = "repo"]
          /\ pc' = IF impl = "class" THEN "readme" ELSE "contents"
          /\ resp' = resp
     ELSE /\ analysis' = analysis
          /\ pc' = "done"
          /\ resp' = AnalysisFailure(impl, MetadataError(up.meta))
  /\ UNCHANGED <<impl, body, apiKey, up, urlRes, gen, text, outcome, prompt,
                 peer>>

\* The root listing request of the inline analyzeRepository.
InlineGetContents ==
  /\ pc = "contents"
  /\ impl = "inline"
  /\ calls' = Append(calls, Call("repos.getContent", <<>>))
  /\ IF up.root.kind = "error"
     THEN /\ pc' = "done"
          /\ resp' = AnalysisFailure(impl, Err("Error", MsgUpstream))
     ELSE /\ pc' = "readme"
          /\ resp' = resp
  /\ UNCHANGED <<impl, body, apiKey, up, urlRes, analysis, gen, text, outcome,
                 prompt,
                 peer>>

\* fetchReadme (inline: the README loop).
FetchReadme ==
  /\ pc = "readme"
  /\ LET r == fetchReadme(up.readme)
     IN  /\ analysis' = [analysis EXCEPT !.readme = r.value]
         /\ calls' = calls \o r.calls
  /\ pc' = "config"
  /\ UNCHANGED <<impl, body, apiKey, up, urlRes, gen, text, outcome, resp,
                 prompt,
                 peer>>

\* fetchConfigFile (inline: the config-file loop).
FetchConfigFile ==
  /\ pc = "config"
  /\ LET r == fetchConfigFile(up.config)
     IN  /\ analysis' = [analysis EXCEPT !.packageJson = r.value]
         /\ calls' = calls \o r.calls
  /\ pc' = "structure"
  /\ UNCHANGED <<impl, body, apiKey, up, urlRes, gen, text, outcome, resp,
                 prompt,
                 peer>>

\* The return statement of analyzeRepository.
ReturnAnalysis(a, p) ==
  [a EXCEPT !.returned = TRUE,
            !.readme = Slice(a.readme, MAX_README_SIZE),
            !.fileStructure = p.fileStructure,
            !.keyFiles = p.keyFiles]

\* analyzeFileStructure and the return of GitHubAnalyzer.analyzeRepository.
AnalyzeFileStructure ==
  /\ pc = "structure"
  /\ impl = "class"
  /\ IF up.root.kind = "error"
     THEN /\ calls' = Append(calls, Call("repos.getContent", <<>>))
          /\ analysis' = analysis
          /\ pc' = "done"
          /\ resp' = AnalysisFailure(impl, Err("Error", MsgUpstream))
     ELSE LET p == ProcessContents(up.root, impl)
          IN  /\ calls' = Append(calls, Call("repos.getContent", <<>>)) \o p.calls
              /\ analysis' = ReturnAnalysis(analysis, p)
              /\ pc' = "prompt"
              /\ resp' = resp
  /\ UNCHANGED <<impl, body, apiKey, up, urlRes, gen, text, outcome, prompt,
                 peer>>

\* The listing loop and the return of the inline analyzeRepository.
InlineProcessContents ==
  /\ pc = "structure"
  /\ impl = "inline"
  /\ LET p == ProcessContents(up.root, impl)
     IN  /\ calls' = calls \o p.calls
         /\ analysis' = ReturnAnalysis(analysis, p)
  /\ pc' = "prompt"
  /\ UNCHANGED <<impl, body, apiKey, up, urlRes, gen, text, outcome, resp,
                 prompt,
                 peer>>

(***************************************************************************)
(* Prompt assembly and the generation call.                                *)
(***************************************************************************)
\* The tables of PromptGenerator.
AUDIENCE_CONTEXT ==
  ("conference" :> "developer conference with technical audience expecting innovative solutions, best practices, and cutting-edge approaches")
  @@ ("internal" :> "team demonstration focusing on implementation details, architectural decisions, and collaboration benefits")
  @@ ("client" :> "business stakeholder presentation emphasizing value proposition, practical outcomes, and ROI")
  @@ ("interview" :> "technical interview showcasing problem-solving approach, code quality, and engineering thinking")
  @@ ("workshop" :> "hands-on learning session with interactive components, practical exercises, and audience participation")
TIME_GUIDANCE ==
  ("5min" :> "Lightning talk - hit only the most impressive highlights and key innovations")
  @@ ("15min" :> "Balanced overview with key technical details and compelling demonstrations")
  @@ ("30min" :> "Comprehensive walkthrough with deep dives into interesting technical sections")
  @@ ("1hour" :> "Detailed exploration with multiple examples, architecture deep-dives, hands-on exercises, and extensive Q&A preparation")
FOCUS_AREAS ==
  ("conference" :> "technical innovation, architecture decisions, performance optimizations, unique solutions")
  @@ ("internal" :> "implementation approach, team collaboration, development workflow, technical debt solutions")
  @@ ("client" :> "business value, user impact, scalability, reliability, time-to-market benefits")
  @@ ("interview" :> "problem-solving process, code quality, testing approach, scalability considerations")
  @@ ("workshop" :> "practical application, hands-on exercises, interactive demonstrations, learning objectives")

\* The tables of the inline generatePrompt.
audienceContext ==
  ("conference" :> "developer conference with technical audience expecting innovative solutions, best practices, and cutting-edge approaches")
  @@ ("internal" :> "team demonstration focusing on implementation details, architectural decisions, and collaboration benefits")
  @@ ("client" :> "business stakeholder presentation emphasizing value proposition, practical outcomes, and ROI")
  @@ ("interview" :> "technical interview showcasing problem-solving approach, code quality, and engineering thinking")
timeGuidance ==
  ("5min" :> "Lightning talk - hit only the most impressive highlights and key innovations")
  @@ ("15min" :> "Balanced overview with key technical details and compelling demonstrations")
  @@ ("30min" :> "Comprehensive walkthrough with deep dives into interesting technical sections")
  @@ ("45min+" :> "Detailed exploration with multiple examples, architecture deep-dives, and extensive Q&A preparation")
focusAreas ==
  ("conference" :> "technical innovation, architecture decisions, performance optimizations, unique solutions")
  @@ ("internal" :> "implementation approach, team collaboration, development workflow, technical debt solutions")
  @@ ("client" :> "business value, user impact, scalability, reliability, time-to-market benefits")
  @@ ("interview" :> "problem-solving process, code quality, testing approach, scalability considerations")

\* table[key] inside a template literal: a missing key prints as undefined.
Index(table, key) == IF key \in DOMAIN table THEN table[key] ELSE "undefined"

\* The length of JSON.stringify(packageJson, null, 2): a parsed package.json
\* is taken to be written in that layout already; {type, content} adds the
\* braces, the two keys, the quotes and the file name to a content that
\* needs no escapes.
MANIFEST_LIMIT == 1000
StringifyOverhead == 33
NameLength(name) ==
  CASE name = <<"package", "json">> -> 12
    [] name = <<"pyproject", "toml">> -> 14
    [] name = <<"Cargo", "toml">> -> 10
    [] name = <<"go", "mod">> -> 6
    [] name = <<"pom", "xml">> -> 7
    [] OTHER -> 0
StringifyLength(pj) ==
  IF pj.kind = "raw" THEN StringifyOverhead + NameLength(pj.type) + pj.len
  ELSE pj.len
\* A block that holds the whole serialized manifest.
ManifestBlockMutantNoSlice(pj) ==
  [present |-> pj.kind # "null",
   len |-> IF pj.kind = "null" THEN 0 ELSE StringifyLength(pj)]
\* The CONFIGURATION/DEPENDENCIES block: absent for a null packageJson.
ManifestBlock(pj) ==
  [present |-> pj.kind # "null",
   len |-> IF pj.kind = "null" THEN 0
           ELSE Min(StringifyLength(pj), MANIFEST_LIMIT)]

\* The output-format block: the template up to the end of "sections", the
\* fields qaPredictions and techQuestions when includeQA holds, and
\* closingNotes, with the line breaks ("n") and indents ("_") between them.
QaSection == <<"qaPredictions", "n", "_", "techQuestions">>
\* An output-format block that has the Q&A fields whatever includeQA is.
ClassOutputFormatMutantAlwaysQa(qa) ==
  <<"template", "n", "_">> \o QaSection \o <<"n", "_", "closingNotes">>
ClassOutputFormat(qa) ==
  <<"template">> \o (IF qa THEN <<"n", "_">> \o QaSection ELSE <<>>) \o
  <<"n", "_", "closingNotes">>
InlineOutputFormat(qa) ==
  <<"template", "n", "_">> \o (IF qa THEN QaSection ELSE <<>>) \o
  <<"n", "_", "closingNotes">>

\* A prompt, by the parts that depend on the analysis a and the config c.
Prompt(a, c, context, guidance, focus, instr, format) ==
  [system |-> context, name |-> a.name, readme |-> a.readme,
   fileStructure |-> a.fileStructure, keyFiles |-> a.keyFiles,
   manifest |-> ManifestBlock(a.packageJson),
   duration |-> c.timeConstraint, timeGuidance |-> guidance,
   focusAreas |-> focus, includeQA |-> c.includeQA,
   includeLiveDemo |-> c.includeLiveDemo, instructions |-> instr,
   outputFormat |-> format]
NoPrompt ==
  [system |-> "", name |-> "", readme |-> EmptyContent, fileStructure |-> <<>>,
   keyFiles |-> <<>>, manifest |-> ManifestBlock(NoConfig), duration |-> "",
   timeGuidance |-> "", focusAreas |-> "", includeQA |-> FALSE,
   includeLiveDemo |-> FALSE, instructions |-> <<>>, outputFormat |-> <<>>]

\* PromptGenerator.generate
generate(a, c) ==
  Prompt(a, c, Index(AUDIENCE_CONTEXT, c.audience),
         Index(TIME_GUIDANCE, c.timeConstraint),
         Index(FOCUS_AREAS, c.audience),
         <<"base">> \o (IF c.audience = "workshop" THEN <<"workshop">> ELSE <<>>),
         ClassOutputFormat(c.includeQA))

\* generatePrompt of the inline variant
generatePrompt(a, c) ==
  Prompt(a, c, Index(audienceContext, c.audience),
         Index(timeGuidance, c.timeConstraint),
         Index(focusAreas, c.audience),
         <<"base">>,
         InlineOutputFormat(c.includeQA))

\* The prompt that variant v assembles.
PromptOf(v, a, c) == IF v = "class" THEN generate(a, c) ELSE generatePrompt(a, c)

\* The call of the prompt assembler in POST.
GeneratePrompt ==
  /\ pc = "prompt"
  /\ prompt' = PromptOf(impl, analysis, body.config)
  /\ pc' = "generate"
  /\ UNCHANGED <<impl, body, apiKey, up, calls, urlRes, analysis, gen, text,
                 outcome, resp,
                 peer>>

\* A generatePresentation that hands the first segment to the normalizer
\* without looking at its type.
GeneratePresentationMutantNoTypeCheck ==
  /\ pc = "generate"
  /\ calls' = Append(calls, Call("messages.create", <<>>))
  /\ IF gen.svc # "error"
     THEN /\ text' = ReplyText(gen)
          /\ pc' = "parse"
          /\ resp' = resp
     ELSE /\ text' = text
          /\ pc' = "done"
          /\ resp' = IF impl = "class"
                     THEN ClassCatch(Err("Error", MsgUpstream))
                     ELSE Response(500, MsgInlineGenFailed, Undefined)
  /\ UNCHANGED <<impl, body, apiKey, up, urlRes, analysis, gen, outcome,
                 prompt,
                 peer>>
\* anthropic.messages.create and the check of the first segment.
GeneratePresentation ==
  /\ pc = "generate"
  /\ calls' = Append(calls, Call("messages.create", <<>>))
  /\ \E dev \in BOOLEAN :
       IF gen.svc = "text"
       THEN /\ text' = ReplyText(gen)
            /\ pc' = "parse"
            /\ resp' = resp
       ELSE /\ text' = text
            /\ pc' = "done"
            /\ resp' =
                 IF gen.svc = "nontext"
                 THEN IF impl = "class"
                      THEN ClassCatch(Err("Error", MsgUnexpectedType))
                      ELSE InlineOuterCatch(Err("Error", MsgUnexpectedType), dev)
                 ELSE IF impl = "class"
                      THEN ClassCatch(Err("Error", MsgUpstream))
                      ELSE Response(500, MsgInlineGenFailed, Undefined)
  /\ UNCHANGED <<impl, body, apiKey, up, urlRes, analysis, gen, outcome,
                 prompt,
                 peer>>

(***************************************************************************)
(* parseClaudeResponse and the inline parsing code of POST.                *)
(***************************************************************************)
\* The try block (route.ts 225-241, and 698-710 in the inline POST).
ParseTry ==
  /\ pc = "parse"
  /\ LET r == DirectParse(text)
     IN  IF r.returned
         THEN /\ outcome' = Returned(1, r.val)
              /\ pc' = "respond"
         ELSE /\ outcome' = outcome
              /\ pc' = "catch"
  /\ UNCHANGED <<impl, body, apiKey, up, calls, urlRes, analysis, gen, text,
                 resp, prompt,
                 peer>>

\* A catch block that applies the shape check of the try block.
FallbackMutantChecked(t) ==
  LET m == jsonMatch(t)
      p == JsonParse(m.span)
  IN  IF ~m.found THEN Thrown(2, Err("Error", MsgMalformed))
      ELSE IF p.ok /\ p.val.type # "null" /\ ShapeOk(p.val)
           THEN Returned(2, p.val)
      ELSE Thrown(2, Err("Error", MsgMalformed))
\* What the catch block of parseClaudeResponse does with the raw text.
Fallback(t) ==
  LET m == jsonMatch(t)
      p == JsonParse(m.span)
  IN  IF ~m.found THEN Thrown(2, Err("Error", MsgMalformed))
      ELSE IF p.ok THEN Returned(2, p.val)
      ELSE Thrown(2, Err("SyntaxError", MsgSyntaxError))

\* The catch block of parseClaudeResponse; what it throws goes through
\* generatePresentation to the catch block of POST.
ParseCatch ==
  /\ pc = "catch"
  /\ impl = "class"
  /\ outcome' = Fallback(text)
  /\ IF outcome'.kind = "throw"
     THEN /\ resp' = ClassCatch(outcome'.err)
          /\ pc' = "done"
     ELSE /\ resp' = resp
          /\ pc' = "respond"
  /\ UNCHANGED <<impl, body, apiKey, up, calls, urlRes, analysis, gen, text,
                 prompt,
                 peer>>

\* The catch (parseError) block of the inline POST.
InlineFallback(t) ==
  LET m == jsonMatch(t)
      p == JsonParse(m.span)
  IN  IF ~m.found THEN Thrown(2, Err("Response", MsgInlineNoJson))
      ELSE IF p.ok THEN Returned(2, p.val)
      ELSE Thrown(2, Err("Response", MsgInlineMalformed))

InlineParseCatch ==
  /\ pc = "catch"
  /\ impl = "inline"
  /\ outcome' = InlineFallback(text)
  /\ IF outcome'.kind = "throw"
     THEN /\ resp' = Response(500, outcome'.err.message, Undefined)
          /\ pc' = "done"
     ELSE /\ resp' = resp
          /\ pc' = "respond"
  /\ UNCHANGED <<impl, body, apiKey, up, calls, urlRes, analysis, gen, text,
                 prompt,
                 peer>>

\* return NextResponse.json({runOfShow, metadata}) of either POST.
RespondSuccess ==
  /\ pc = "respond"
  /\ outcome.kind = "return"
  /\ resp' = Response(200, "", outcome.val)
  /\ pc' = "done"
  /\ UNCHANGED <<impl, body, apiKey, up, calls, urlRes, analysis, gen, text,
                 outcome, prompt,
                 peer>>

(***************************************************************************)
(* The inputs the specifications draw.                                     *)
(***************************************************************************)
\* The values within MaxExtra of 0 and of the limit k.
Around(k) == (0..MaxExtra) \cup ((k - MaxExtra)..(k + MaxExtra))

GoodUrl == <<"https:", "/", "/", "G", "/", "a", "/", "a">>
GoodBody == Body("object", "string", GoodUrl, "object")

\* Lookup results with the first file at position k (k = 6: none); the
\* lookups before it are of kind miss, the ones after it would succeed.
LookupsWith(k, miss, n, v) ==
  [i \in 1..5 |-> IF i < k THEN Lookup(miss, 0, FALSE)
                  ELSE IF i = k THEN Lookup("file", n, v)
                  ELSE Lookup("file", 7, TRUE)]

DirEntry(i) == Entry("dir", <<"pkg", ToString(i)>>, i, 0, Lookup("dir", 0, FALSE))
FillerEntry(i) ==
  Entry("file", <<"notes", ToString(i), "txt">>, 100 + i, 10,
        Lookup("file", 10, FALSE))
\* Two key files: index.js sorts before the other files, package.json after.
KeyEntry(which, sz, f) ==
  IF which = 1 THEN Entry("file", <<"index", "js">>, 100, sz, f)
  ELSE Entry("file", <<"package", "json">>, 900, sz, f)
\* By default index.js is longer than the content limit, package.json short.
DefaultKey(which) ==
  KeyEntry(which, 10,
           Lookup("file", IF which = 1 THEN MAX_CONTENT_SIZE + 1 ELSE 10, TRUE))

\* A symbolic link whose name sorts before every file name.
LinkEntry == Entry("symlink", <<"alink">>, 50, 10, Lookup("file", 10, FALSE))

Reverse(s) == [i \in 1..Len(s) |-> s[Len(s) + 1 - i]]

MkListing(nd, nf, k1, k2, order) ==
  LET asc == [i \in 1..nd |-> DirEntry(i)] \o <<k1>> \o
             [i \in 1..nf |-> FillerEntry(i)] \o <<k2>>
  IN  IF order = "asc" THEN asc ELSE Reverse(asc)

KeyFetches ==
  {Lookup("file", n, TRUE) : n \in Around(MAX_CONTENT_SIZE)}
  \cup {Lookup("dir", 0, FALSE), Lookup("error", 0, FALSE)}
KeyVariants(which) ==
  {KeyEntry(which, sz, f) : sz \in Around(MAX_FILE_SIZE), f \in KeyFetches}

Listings ==
  {MkListing(nd, nf, DefaultKey(1), DefaultKey(2), o) :
     nd \in Around(LISTING_LIMIT), nf \in Around(LISTING_LIMIT),
     o \in {"asc", "desc"}}
  \cup
  {MkListing(12, 36, DefaultKey(1), DefaultKey(2), o) : o \in {"asc", "desc"}}
  \cup
  {MkListing(nd, 1, k1, DefaultKey(2), "desc") :
     nd \in 0..MaxExtra, k1 \in KeyVariants(1)}
  \cup
  {MkListing(nd, 1, DefaultKey(1), k2, "asc") :
     nd \in 0..MaxExtra, k2 \in KeyVariants(2)}

\* A listing of key files only, more of them than the listing limit: the
\* entry points index, main, app and server in eight languages, in the
\* order of their names.
KeyStems == <<"app", "index", "main", "server">>
KeyExtensions == <<"go", "java", "js", "jsx", "py", "rs", "ts", "tsx">>
ManyKeysListing ==
  Reverse([i \in 1..(Len(KeyStems) * Len(KeyExtensions)) |->
             Entry("file",
                   <<KeyStems[((i - 1) \div Len(KeyExtensions)) + 1],
                     KeyExtensions[((i - 1) % Len(KeyExtensions)) + 1]>>,
                   200 + i, 10, Lookup("file", 10, FALSE))])

\* The answer to the root listing request, and the order in which the
\* engine's sort calls the comparator on it.
RootSorted(k, entries, o) == [kind |-> k, entries |-> entries, callOrder |-> o]
Root(k, entries) == RootSorted(k, entries, "ab")
\* Listings with a symbolic link among the files.
LinkListings ==
  {MkListing(nd, 0, LinkEntry, DefaultKey(1), o) :
     nd \in 0..MaxExtra, o \in {"asc", "desc"}}
Upstream(m, rd, cf, rt) == [meta |-> m, readme |-> rd, config |-> cf, root |-> rt]

GoodReadme == LookupsWith(1, "error", MAX_README_SIZE + 1, TRUE)
GoodConfig == LookupsWith(1, "error", 10, TRUE)
GoodRoot == Root("array", MkListing(1, 1, DefaultKey(1), DefaultKey(2), "desc"))
GoodUp == Upstream(200, GoodReadme, GoodConfig, GoodRoot)

\* 0: the request fails with an error that has no status.
MetaStatuses == {200, 404, 403, 500, 0}

FetchUps ==
  {Upstream(m, GoodReadme, GoodConfig, GoodRoot) : m \in MetaStatuses}
  \cup
  {Upstream(200, LookupsWith(k, miss, n, TRUE), GoodConfig, GoodRoot) :
     k \in 1..6, miss \in {"error", "dir"}, n \in Around(MAX_README_SIZE)}
  \cup
  {Upstream(200, GoodReadme, LookupsWith(k, miss, n, v), GoodRoot) :
     k \in 1..6, miss \in {"error", "dir"},
     n \in Around(MAX_CONTENT_SIZE) \cup Around(MAX_FILE_SIZE), v \in BOOLEAN}
  \cup
  {Upstream(200, GoodReadme, GoodConfig, rt) :
     rt \in {Root("error", <<>>), Root("object", <<>>),
             Root("array", ManyKeysListing)}
            \cup {Root("array", l) : l \in Listings}
            \cup {RootSorted("array", l, o) : l \in LinkListings,
                                              o \in {"ab", "ba"}}}

SmallUps ==
  {Upstream(m, GoodReadme, GoodConfig, GoodRoot) : m \in MetaStatuses}
  \cup {Upstream(200, GoodReadme, GoodConfig, Root("error", <<>>)),
        Upstream(200, LookupsWith(2, "error", 7, TRUE),
                 LookupsWith(2, "error", 7, TRUE), GoodRoot),
        Upstream(200, LookupsWith(6, "error", 0, TRUE),
                 LookupsWith(6, "dir", 0, TRUE), Root("object", <<>>))}

GoodCand == [title |-> "v", overview |-> "v", sections |-> "array", nsec |-> 1]
GoodReply == Reply(TRUE, GoodCand, Serialize(GoodCand), "json", <<>>, <<>>)
SmallReplies ==
  {GoodReply,
   Reply(TRUE, GoodCand, Serialize(GoodCand), "none", <<"w">>, <<"w">>),
   Reply(TRUE, GoodCand, Serialize(GoodCand), "none", <<"{">>, <<>>),
   Reply(TRUE, NoCand, Serialize(NoCand), "bare", <<>>, <<>>),
   Reply(FALSE, NoCand, <<"w">>, "none", <<>>, <<>>),
   [GoodReply EXCEPT !.svc = "nontext"],
   [GoodReply EXCEPT !.svc = "error"]}

SmallUrls ==
  {<<>>, GoodUrl, GoodUrl \o <<"/">>, GoodUrl \o <<".git">>,
   GoodUrl \o <<"_">>, GoodUrl \o <<"/", "a">>,
   <<"http:", "/", "/", "G", "/", "a", "/", "a">>,
   <<"https:", "/", "/", "E", "/", "G", "/", "a", "/", "a">>,
   <<"G", "/", "a", "/", "a">>, <<"a">>,
   <<"https:", "/", "/", "G", "/", "a">>,
   <<"https:", "/", "/", "G", "/", "a", "/", ".git">>,
   <<"https:", "/", "/", "G", "/", "a", "/", "a", ".git", "/">>}

SmallBodies ==
  {Body(j, "missing", <<>>, "missing") : j \in {"invalid", "null"}}
  \cup {Body("object", uk, <<>>, ck) :
          uk \in {"missing", "nonstring"}, ck \in {"missing", "object"}}
  \cup {Body("object", "string", u, ck) :
          u \in SmallUrls, ck \in {"missing", "nonobject", "object"}}

UrlPrefixes ==
  {<<>>, <<"https:", "/", "/">>, <<"http:", "/", "/">>,
   <<"https:", "/", "/", "E", "/">>, <<"a">>,
   <<"https:", "/", "/", "G", "/">>}
UrlTokens == {"/", "a", ".git", "G"}
Urls == {p \o t : p \in UrlPrefixes, t \in SeqsUpTo(UrlTokens, MaxPath)}

(***************************************************************************)
(* The state a request is in when analyzeRepository has returned and the   *)
(* generation service has answered, computed from the upstream state.      *)
(***************************************************************************)
AnalysisCalls(v, u, repo) ==
  LET p == ProcessContents(u.root, v)
      rootCall == <<Call("repos.getContent", <<>>)>>
  IN  IF v = "class"
      THEN <<Call("repos.get", repo)>> \o fetchReadme(u.readme).calls \o
           fetchConfigFile(u.config).calls \o rootCall \o p.calls
      ELSE <<Call("repos.get", repo)>> \o rootCall \o
           fetchReadme(u.readme).calls \o fetchConfigFile(u.config).calls \o
           p.calls

AnalysisOf(v, u) ==
  ReturnAnalysis([NoAnalysis EXCEPT !.name = "repo",
                                    !.readme = fetchReadme(u.readme).value,
                                    !.packageJson = fetchConfigFile(u.config).value],
                 ProcessContents(u.root, v))

(***************************************************************************)
(* Specifications.                                                         *)
(***************************************************************************)
\* The state of one request: everything POST holds in its local variables.
\* impl and apiKey belong to the module and the process and are common.
Request(p, b, u, cs, ur, a, pr, g, t, o, r) ==
  [pc |-> p, body |-> b, up |-> u, calls |-> cs, urlRes |-> ur,
   analysis |-> a, prompt |-> pr, gen |-> g, text |-> t, outcome |-> o,
   resp |-> r]
\* A request that has just arrived.
NewRequest(b, u, g) ==
  Request("start", b, u, <<>>, NoUrlRes, NoAnalysis, NoPrompt, g, <<>>,
          NoOutcome, NoResp)
\* No second request is being processed.
NoPeer ==
  Request("absent", GoodBody, GoodUp, <<>>, NoUrlRes, NoAnalysis, NoPrompt,
          NoReply, <<>>, NoOutcome, NoResp)

\* An event loop that keeps the text of the generation reply in a place
\* that both requests use.
SwitchMutantSharedText ==
  /\ peer.pc # "absent"
  /\ pc' = peer.pc
  /\ body' = peer.body
  /\ up' = peer.up
  /\ calls' = peer.calls
  /\ urlRes' = peer.urlRes
  /\ analysis' = peer.analysis
  /\ prompt' = peer.prompt
  /\ gen' = peer.gen
  /\ outcome' = peer.outcome
  /\ resp' = peer.resp
  /\ peer' = Request(pc, body, up, calls, urlRes, analysis, prompt, gen, text,
                     outcome, resp)
  /\ UNCHANGED <<impl, apiKey, text>>
\* The event loop leaves the request it was running at an await and resumes
\* the other one: the local variables of POST go with their request, the
\* module-level anthropic, analyzer and octokit are the same for both.
Switch ==
  /\ peer.pc # "absent"
  /\ pc' = peer.pc
  /\ body' = peer.body
  /\ up' = peer.up
  /\ calls' = peer.calls
  /\ urlRes' = peer.urlRes
  /\ analysis' = peer.analysis
  /\ prompt' = peer.prompt
  /\ gen' = peer.gen
  /\ text' = peer.text
  /\ outcome' = peer.outcome
  /\ resp' = peer.resp
  /\ peer' = Request(pc, body, up, calls, urlRes, analysis, prompt, gen, text,
                     outcome, resp)
  /\ UNCHANGED <<impl, apiKey>>

\* A request from its arrival to its response.
Init ==
  /\ impl \in {"class", "inline"}
  /\ pc = "start"
  /\ body \in SmallBodies
  /\ apiKey \in BOOLEAN
  /\ up \in SmallUps
  /\ calls = <<>>
  /\ urlRes = NoUrlRes
  /\ analysis = NoAnalysis
  /\ prompt = NoPrompt
  /\ gen \in SmallReplies
  /\ text = <<>>
  /\ outcome = NoOutcome
  /\ resp = NoResp
  /\ peer = NoPeer

Next ==
  \/ ValidateRequest \/ InlineValidate
  \/ AnalyzeRepositoryStart \/ FetchRepositoryData \/ InlineGetContents
  \/ FetchReadme \/ FetchConfigFile
  \/ AnalyzeFileStructure \/ InlineProcessContents
  \/ GeneratePrompt \/ GeneratePresentation
  \/ ParseTry \/ ParseCatch \/ InlineParseCatch \/ RespondSuccess

Spec == Init /\ [][Next]_vars

\* The normalizer on every reply: the request has a text segment in hand.
InitNorm ==
  /\ impl \in {"class", "inline"}
  /\ pc = "parse"
  /\ body = GoodBody
  /\ apiKey = TRUE
  /\ up = GoodUp
  /\ urlRes = parseRepoUrl(GoodUrl)
  /\ calls = Append(AnalysisCalls(impl, up, urlRes.repo),
                    Call("messages.create", <<>>))
  /\ analysis = AnalysisOf(impl, up)
  /\ prompt = PromptOf(impl, analysis, body.config)
  /\ gen \in Replies(Prose)
  /\ text = ReplyText(gen)
  /\ outcome = NoOutcome
  /\ resp = NoResp
  /\ peer = NoPeer

NextNorm == ParseTry \/ ParseCatch \/ InlineParseCatch \/ RespondSuccess

SpecNorm == InitNorm /\ [][NextNorm]_vars

\* parseRepoUrl on every URL: called on its own, and on the URL that the
\* inline POST passes to analyzeRepository.
InitUrl ==
  /\ impl \in {"class", "inline"}
  /\ pc = IF impl = "class" THEN "call" ELSE "analyze"
  /\ \E u \in Urls : /\ impl = "inline" => u # <<>>
                     /\ body = Body("object", "string", u, "object")
  /\ apiKey = TRUE
  /\ up = GoodUp
  /\ calls = <<>>
  /\ urlRes = NoUrlRes
  /\ analysis = NoAnalysis
  /\ prompt = NoPrompt
  /\ gen = GoodReply
  /\ text = <<>>
  /\ outcome = NoOutcome
  /\ resp = NoResp
  /\ peer = NoPeer

NextUrl == CallParseRepoUrl \/ AnalyzeRepositoryStart

SpecUrl == InitUrl /\ [][NextUrl]_vars

\* analyzeRepository on every upstream state, from its first request on.
InitFetch ==
  /\ impl \in {"class", "inline"}
  /\ pc = "metadata"
  /\ body = GoodBody
  /\ apiKey = TRUE
  /\ up \in FetchUps
  /\ calls = <<>>
  /\ urlRes = parseRepoUrl(GoodUrl)
  /\ analysis = NoAnalysis
  /\ prompt = NoPrompt
  /\ gen = GoodReply
  /\ text = <<>>
  /\ outcome = NoOutcome
  /\ resp = NoResp
  /\ peer = NoPeer

NextFetch ==
  \/ FetchRepositoryData \/ InlineGetContents \/ FetchReadme \/ FetchConfigFile
  \/ AnalyzeFileStructure \/ InlineProcessContents

SpecFetch == InitFetch /\ [][NextFetch]_vars

\* The prompt assembler on every config and on analyses with and without
\* a README, a manifest and key files.
Configs ==
  {Config("object", a, t, qa, demo) :
     a \in Audiences, t \in TimeConstraints, qa \in BOOLEAN, demo \in BOOLEAN}
PromptUps ==
  {GoodUp,
   Upstream(200, LookupsWith(6, "error", 0, TRUE),
            LookupsWith(6, "dir", 0, TRUE), Root("object", <<>>)),
   Upstream(200, GoodReadme, LookupsWith(2, "error", MANIFEST_LIMIT, TRUE),
            GoodRoot)}
  \cup
  {Upstream(200, GoodReadme, LookupsWith(1, "error", n, TRUE), GoodRoot) :
     n \in Around(MANIFEST_LIMIT) \cup {MAX_FILE_SIZE + 1}}
InitPrompt ==
  /\ impl \in {"class", "inline"}
  /\ pc = "prompt"
  /\ \E c \in Configs : body = [GoodBody EXCEPT !.config = c]
  /\ apiKey = TRUE
  /\ up \in PromptUps
  /\ urlRes = parseRepoUrl(GoodUrl)
  /\ calls = AnalysisCalls(impl, up, urlRes.repo)
  /\ analysis = AnalysisOf(impl, up)
  /\ prompt = NoPrompt
  /\ gen \in {GoodReply, [GoodReply EXCEPT !.svc = "error"]}
  /\ text = <<>>
  /\ outcome = NoOutcome
  /\ resp = NoResp
  /\ peer = NoPeer

NextPrompt == GeneratePrompt \/ GeneratePresentation

SpecPrompt == InitPrompt /\ [][NextPrompt]_vars

\* Two requests in the same process, their steps interleaved in every way.
PairBodies == {GoodBody, Body("object", "string", <<"a">>, "object")}
PairUps == {GoodUp, Upstream(404, GoodReadme, GoodConfig, GoodRoot)}
PairReplies ==
  {GoodReply,
   Reply(TRUE, GoodCand, Serialize(GoodCand), "none", <<"w">>, <<"w">>),
   Reply(FALSE, NoCand, <<"w">>, "none", <<>>, <<>>),
   [GoodReply EXCEPT !.svc = "nontext"]}
InitPair ==
  /\ impl \in {"class", "inline"}
  /\ pc = "start"
  /\ body \in PairBodies
  /\ apiKey \in BOOLEAN
  /\ up \in PairUps
  /\ calls = <<>>
  /\ urlRes = NoUrlRes
  /\ analysis = NoAnalysis
  /\ prompt = NoPrompt
  /\ gen \in PairReplies
  /\ text = <<>>
  /\ outcome = NoOutcome
  /\ resp = NoResp
  /\ \E b \in PairBodies, u \in PairUps, g \in PairReplies :
       peer = NewRequest(b, u, g)

NextPair == Next \/ Switch

SpecPair == InitPair /\ [][NextPair]_vars

(***************************************************************************)
(* Properties.                                                             *)
(***************************************************************************)
Finished == pc = "done"
\* The normalizer has run to its end on the text.
Normalized == outcome.kind # "none"

\* C1: when the repository-metadata request fails with 404 or 403, POST
\* answers 400 with the fetcher's not-found / forbidden message.
C1_MetadataDenied400 ==
  (/\ Finished
   /\ up.meta \in {404, 403}
   /\ calls # <<>>
   /\ calls[Len(calls)].api = "repos.get")
  => /\ resp.status = 400
     /\ resp.error = (IF up.meta = 404 THEN MsgNotFound ELSE MsgForbidden)

\* The request conditions that C2 names.
InvalidRequest(b) ==
  \/ b.json # "object"
  \/ b.repoUrl.kind # "string"
  \/ b.repoUrl.s = <<>>
  \/ ~AcceptancePattern(b.repoUrl.s)
  \/ b.config.kind # "object"

\* C2: a request with a body that is not JSON, without a usable repoUrl,
\* with a repoUrl failing the acceptance pattern or without a config object
\* is answered 400, and no upstream call is made in it.
C2_InvalidRequest400NoCalls ==
  InvalidRequest(body) => /\ calls = <<>>
                          /\ Finished => resp.status = 400

\* C3: every object the normalizer returns has a non-empty title, a
\* non-empty overview and a non-empty sections sequence.
C3_ReturnedOutlineComplete ==
  outcome.kind = "return"
  => /\ Truthy(Get(outcome.val, "title"))
     /\ Truthy(Get(outcome.val, "overview"))
     /\ IsArray(Get(outcome.val, "sections"))
     /\ Get(outcome.val, "sections").items # <<>>

\* Stage 1 on the text: the value parsed from the cleaned text, accepted
\* only with the outline shape.
Stage1Accepts(t) ==
  /\ JsonParse(cleanedText(t)).ok
  /\ ShapeOk(JsonParse(cleanedText(t)).val)
\* Stage 2 on the text: the greedy brace span of the raw text parses.
Stage2Accepts(t) ==
  /\ jsonMatch(t).found
  /\ JsonParse(jsonMatch(t).span).ok

ValidOutline(c) ==
  /\ c.title \in {"v", "vF"}
  /\ c.overview = "v"
  /\ c.sections = "array"

\* C5: a valid outline, serialized, fenced with json markers or not, with
\* any prose before and after it, is normalized to an object with the same
\* title, the same overview and as many sections.
C5_RoundTrip ==
  (/\ Normalized
   /\ gen.fromCand
   /\ ValidOutline(gen.cand)
   /\ gen.fence \in {"none", "json"})
  => /\ outcome.kind = "return"
     /\ Get(outcome.val, "title") = Str(Literal[gen.cand.title])
     /\ Get(outcome.val, "overview") = Str(Literal[gen.cand.overview])
     /\ IsArray(Get(outcome.val, "sections"))
     /\ Len(Get(outcome.val, "sections").items) = gen.cand.nsec

\* C6: when stage 1 fails and the brace span of the raw text does not
\* parse, the normalizer fails with the malformed-generation error, never
\* with the error of the JSON parser.
C6_UnparseableSpanIsMalformed ==
  (/\ Normalized
   /\ ~Stage1Accepts(text)
   /\ jsonMatch(text).found
   /\ ~JsonParse(jsonMatch(text).span).ok)
  => /\ outcome.kind = "throw"
     /\ outcome.err.name # "SyntaxError"
     /\ outcome.err.message \in {MsgMalformed, MsgInlineMalformed}

\* C7: on a text with no "{" that has a "}" after it the normalizer never
\* returns: it fails with the malformed-generation error and POST answers
\* 500.
C7_NoSpanIsMalformed500 ==
  ~jsonMatch(text).found
  => /\ outcome.kind # "return"
     /\ pc # "respond"
     /\ Normalized => /\ outcome.kind = "throw"
                      /\ outcome.err.message \in {MsgMalformed, MsgInlineNoJson}
                      /\ Finished
                      /\ resp.status = 500

\* C7 witness: the class-based normalizer has failed on a text that has an
\* opening brace but no span.
C7_Witness ==
  /\ impl = "class"
  /\ Finished
  /\ Normalized
  /\ ~jsonMatch(text).found
  /\ \E i \in 1..Len(text) : text[i] = "{"
  /\ resp = Response(500, MsgMalformed, Undefined)

\* The URL that parseRepoUrl was given.
GivenUrl == body.repoUrl.s
UrlParsed == pc \in {"called", "metadata"} \/ (Finished /\ resp.status # 0)

\* The path of a URL that starts with https://github.com/ .
HttpsGithub == <<"https:", "/", "/", "G", "/">>
HasHttpsGithub(u) == Len(u) >= 5 /\ SubSeq(u, 1, 5) = HttpsGithub
\* The first and the second path segment: the tokens up to the first "/"
\* of the path, and those between the first "/" and the second (or the end).
Segment1(u) == SubSeq(u, 6, RunEnd(u, 6))
Segment2(u) == SubSeq(u, RunEnd(u, 6) + 2, RunEnd(u, RunEnd(u, 6) + 2))
\* https://github.com/<owner>/<repo>[.git][/...] with non-empty owner and
\* repo.
IsRepoForm(u) ==
  /\ HasHttpsGithub(u)
  /\ Segment1(u) # <<>>
  /\ RunEnd(u, 6) < Len(u)
  /\ StripGit(Segment2(u)) # <<>>

\* C8: for https://github.com/<owner>/<repo>, with or without .git and a
\* further path, parseRepoUrl returns the owner and the repo without the
\* trailing .git.
C8_ParsesRepoForm ==
  (UrlParsed /\ IsRepoForm(GivenUrl))
  => /\ urlRes.ok
     /\ urlRes.owner = Segment1(GivenUrl)
     /\ urlRes.repo = StripGit(Segment2(GivenUrl))

\* C8 witness: a URL with .git and a further path has been parsed.
C8_Witness ==
  /\ pc = "called"
  /\ GivenUrl = HttpsGithub \o <<"a", "/", "a", ".git", "/", "a">>
  /\ urlRes = [ok |-> TRUE, owner |-> <<"a">>, repo |-> <<"a">>]

\* C9: parseRepoUrl fails on every string that is not a github.com URL
\* with an owner and a repo segment, also when github.com/a/b only occurs
\* later in it or the scheme is missing.
C9_RejectsOtherStrings ==
  (UrlParsed /\ ~IsRepoForm(GivenUrl)) => ~urlRes.ok

\* C10: a returned analysis has a readme of at most 5000 characters, key
\* files of at most 3000 characters each and at most 30 structure lines.
C10_AnalysisBounded ==
  analysis.returned
  => /\ analysis.readme.len <= 5000
     /\ \A i \in 1..Len(analysis.keyFiles) :
          analysis.keyFiles[i].content.len <= 3000
     /\ Len(analysis.fileStructure) <= 30

\* C10 witness: upstream exceeded all three limits and each was applied.
C10_Witness ==
  /\ analysis.returned
  /\ up.readme[1].len > 5000
  /\ analysis.readme.len = 5000
  /\ Len(up.root.entries) > 30
  /\ Len(analysis.fileStructure) = 30
  /\ \E i \in 1..Len(analysis.keyFiles) :
       /\ analysis.keyFiles[i].content.len = 3000
       /\ \E j \in 1..Len(up.root.entries) :
            /\ up.root.entries[j].name = analysis.keyFiles[i].path
            /\ up.root.entries[j].fetch.len > 3000

\* C11: every field of a returned analysis, the manifest payload included,
\* is bounded by the fetcher: its size is at most the largest limit the
\* fetcher defines, however large the upstream file is.
C11_ManifestBounded ==
  analysis.returned
  => /\ analysis.readme.len <= MAX_FILE_SIZE
     /\ analysis.packageJson.len <= MAX_FILE_SIZE
     /\ \A i \in 1..Len(analysis.keyFiles) :
          analysis.keyFiles[i].content.len <= MAX_FILE_SIZE

\* analyzeRepository has ended: it returned or it threw.
AnalysisEnded == pc \in {"prompt", "done"}

\* C12: analyzeRepository fails only when the repository-metadata request
\* fails; with the metadata fetched the analysis is returned whatever the
\* README lookups, the manifest lookups, the root-listing request and the
\* key-file fetches do.
C12_OnlyMetadataFails ==
  AnalysisEnded => (analysis.returned <=> up.meta = 200)

\* C13: a failed metadata request raises 'Repository not found...' for
\* status 404, 'Access forbidden...' for status 403 and 'Failed to access
\* repository: ' followed by the upstream message otherwise, and no README,
\* manifest, root-listing or key-file request follows it.
C13_MetadataErrorsAbort ==
  up.meta # 200
  => /\ \A i \in 1..Len(calls) : calls[i].api # "repos.getContent"
     /\ AnalysisEnded
        => /\ ~analysis.returned
           /\ calls = <<Call("repos.get", urlRes.repo)>>
           /\ resp.error =
                (CASE up.meta = 404 -> MsgNotFound
                   [] up.meta = 403 -> MsgForbidden
                   [] up.meta = 500 ->
                        "Failed to access repository: Server Error"
                   [] OTHER -> "Failed to access repository: fetch failed")

\* C13 witness: the metadata request failed with status 500 and the
\* analysis ended with the generic message after that one request.
C13_Witness ==
  /\ up.meta = 500
  /\ Finished
  /\ Len(calls) = 1
  /\ calls[1].api = "repos.get"
  /\ resp.error = "Failed to access repository: Server Error"

\* The prompt assembler has run.
Assembled == pc \in {"generate", "parse", "done"} /\ prompt # NoPrompt

\* C14: for every audience and every timeConstraint the assembled prompt,
\* of either assembler, holds the audience-context sentence, the
\* time-guidance sentence and the focus-areas sentence of the value, and
\* never the text undefined in their place.
C14_TablesTotal ==
  (Assembled /\ body.config.audience \in Audiences
             /\ body.config.timeConstraint \in TimeConstraints)
  => /\ prompt.system = AUDIENCE_CONTEXT[body.config.audience]
     /\ prompt.timeGuidance = TIME_GUIDANCE[body.config.timeConstraint]
     /\ prompt.focusAreas = FOCUS_AREAS[body.config.audience]
     /\ "undefined" \notin {prompt.system, prompt.timeGuidance, prompt.focusAreas}

\* The entry of the root listing that a fileStructure line was made from.
EntryNamed(name) ==
  CHOOSE e \in {up.root.entries[i] : i \in 1..Len(up.root.entries)} :
    e.name = name
\* The order C15 states: directories first, then by name within each group.
ListedBefore(a, b) ==
  \/ a.type = "dir" /\ b.type # "dir"
  \/ (a.type = "dir") = (b.type = "dir") /\ a.ord < b.ord

\* C15: fileStructure is the first 30 entries of the root listing ordered
\* with the directories first and by name within the directories and within
\* the other entries, one line type: name per entry with a slash after a
\* directory; of 50 entries with 12 directories it has 30 lines, the 12
\* directories and then the 18 first files.
C15_ListingOrder ==
  (analysis.returned /\ up.root.kind = "array")
  => LET L == analysis.fileStructure
         E == up.root.entries
         kept == {L[i].name : i \in 1..Len(L)}
     IN  /\ Len(L) = Min(Len(E), 30)
         /\ \A i \in 1..Len(L) :
              /\ \E k \in 1..Len(E) : E[k].name = L[i].name
              /\ L[i].type = EntryNamed(L[i].name).type
              /\ L[i].slash = (L[i].type = "dir")
         /\ \A i, j \in 1..Len(L) :
              i < j => ListedBefore(EntryNamed(L[i].name), EntryNamed(L[j].name))
         /\ \A k \in 1..Len(E) :
              E[k].name \notin kept
              => \A i \in 1..Len(L) : ListedBefore(EntryNamed(L[i].name), E[k])
         /\ (Len(E) = 50 /\ Cardinality({k \in 1..Len(E) : E[k].type = "dir"}) = 12)
            => /\ Len(L) = 30
               /\ \A i \in 1..12 : L[i].type = "dir"
               /\ \A i \in 13..30 : L[i].type = "file"

\* The elements of a sequence.
Range(s) == {s[i] : i \in 1..Len(s)}
\* The first position with file content among lookup results, 0 if none.
FirstFile(results) ==
  IF \E i \in 1..Len(results) : results[i].kind = "file"
  THEN CHOOSE i \in 1..Len(results) :
         /\ results[i].kind = "file"
         /\ \A h \in 1..(i - 1) : results[h].kind # "file"
  ELSE 0
\* The README lookups issued so far, in the order of their issue.
ReadmeCalls ==
  SelectSeq(calls, LAMBDA c : c.api = "repos.getContent"
                              /\ c.path \in Range(README_FILES))
\* fetchReadme has returned and analyzeRepository has not yet.
ReadmeFetched == pc \in {"config", "structure"}

\* C16: fetchReadme looks up README.md, readme.md, README.rst, README.txt,
\* README in that order, stops at the first lookup that yields file content
\* and returns that content, returns the empty string when no lookup does,
\* and never raises.
C16_FirstReadmeWins ==
  LET k == FirstFile(up.readme)
      n == IF k = 0 THEN Len(README_FILES) ELSE k
  IN  /\ (ReadmeFetched \/ analysis.returned)
         => ReadmeCalls = [i \in 1..n |-> Call("repos.getContent", README_FILES[i])]
      /\ ReadmeFetched
         => analysis.readme = (IF k = 0 THEN EmptyContent
                               ELSE Content(README_FILES[k], up.readme[k].len))
      /\ Finished => (up.meta # 200 \/ up.root.kind = "error")

\* C16 witness: the first two lookups failed, README.rst was returned and
\* README.txt, which exists, was not asked for.
C16_Witness ==
  /\ ReadmeFetched
  /\ up.readme[1].kind = "error"
  /\ FirstFile(up.readme) = 3
  /\ up.readme[4].kind = "file"
  /\ Len(ReadmeCalls) = 3
  /\ analysis.readme.src = <<"README", "rst">>

\* The first position at which a manifest is found: a lookup with file
\* content that, for package.json, is JSON text; 0 if there is none.
FirstManifest(results) ==
  IF \E i \in 1..Len(results) :
       results[i].kind = "file" /\ (i = 1 => results[i].valid)
  THEN CHOOSE i \in 1..Len(results) :
         /\ results[i].kind = "file" /\ (i = 1 => results[i].valid)
         /\ \A h \in 1..(i - 1) :
              ~(results[h].kind = "file" /\ (h = 1 => results[h].valid))
  ELSE 0
\* fetchConfigFile has returned and the listing loop has not started.
ConfigFetched == pc = "structure"

\* C17: fetchConfigFile looks up package.json, pyproject.toml, Cargo.toml,
\* go.mod, pom.xml in that order and returns the first found, parsed for
\* package.json and as type and content for the others, and the absent
\* value when none is found; a failed lookup and a package.json that is not
\* JSON count as absent, and nothing is raised.
C17_FirstManifestWins ==
  LET k == FirstManifest(up.config)
      n == IF k = 0 THEN Len(CONFIG_FILES) ELSE k
  IN  /\ ConfigFetched
         => /\ Len(calls) >= n
            /\ SubSeq(calls, Len(calls) - n + 1, Len(calls))
                 = [i \in 1..n |-> Call("repos.getContent", CONFIG_FILES[i])]
            /\ Len(calls) = (IF impl = "class" THEN 1 ELSE 2) + Len(ReadmeCalls) + n
      /\ (ConfigFetched \/ analysis.returned)
         => analysis.packageJson =
              (IF k = 0 THEN NoConfig
               ELSE [kind |-> IF CONFIG_FILES[k] = <<"package", "json">>
                              THEN "parsed" ELSE "raw",
                     type |-> CONFIG_FILES[k],
                     len |-> up.config[k].len])
      /\ Finished => (up.meta # 200 \/ up.root.kind = "error")

\* C17 witness: package.json was found but is not JSON, and pyproject.toml
\* was returned as type and content.
C17_Witness ==
  /\ ConfigFetched
  /\ up.config[1].kind = "file"
  /\ ~up.config[1].valid
  /\ analysis.packageJson.kind = "raw"
  /\ analysis.packageJson.type = <<"pyproject", "toml">>

\* The position of the fileStructure line of a name.
LinePosition(name) ==
  CHOOSE i \in 1..Len(analysis.fileStructure) :
    analysis.fileStructure[i].name = name
\* A kept entry is a key file whose request answered with file content.
KeyFileFetched(e) == Eligible(e) /\ e.fetch.kind = "file"

\* C18: a key-file request that fails takes only that file out of keyFiles:
\* the analysis is returned, keyFiles holds every other eligible kept entry
\* whose request yields content, and in the order of the sorted listing.
C18_KeyFileFailuresAreLocal ==
  up.root.kind = "array"
  => /\ (AnalysisEnded /\ up.meta = 200) => analysis.returned
     /\ analysis.returned
        => LET L == analysis.fileStructure
               K == analysis.keyFiles
           IN  /\ \A i \in 1..Len(L) :
                    KeyFileFetched(EntryNamed(L[i].name))
                    <=> \E j \in 1..Len(K) : K[j].path = L[i].name
               /\ \A j \in 1..Len(K) :
                    \E i \in 1..Len(L) : L[i].name = K[j].path
               /\ \A h, j \in 1..Len(K) :
                    h < j => LinePosition(K[h].path) < LinePosition(K[j].path)

\* C18 witness: the request for index.js failed and package.json, which
\* comes after it in the listing, is the one key file.
C18_Witness ==
  /\ analysis.returned
  /\ up.root.kind = "array"
  /\ \E k \in 1..Len(up.root.entries) :
       /\ up.root.entries[k].name = <<"index", "js">>
       /\ Eligible(up.root.entries[k])
       /\ up.root.entries[k].fetch.kind = "error"
  /\ Len(analysis.keyFiles) = 1
  /\ analysis.keyFiles[1].path = <<"package", "json">>

\* The request passed the validation of its handler.
ValidationPassed ==
  /\ body.json = "object"
  /\ body.repoUrl.kind = "string"
  /\ body.repoUrl.s # <<>>
  /\ impl = "class" => AcceptancePattern(body.repoUrl.s)
  /\ body.config.kind = "object"
  /\ apiKey
\* The stages of a request run in order, each after the success of the one
\* before, and the generation service is called at most once.
StagesInOrder ==
  /\ calls # <<>> => (ValidationPassed /\ urlRes.ok /\ calls[1].api = "repos.get")
  /\ analysis.returned => calls # <<>>
  /\ prompt # NoPrompt => analysis.returned
  /\ \A i \in 1..Len(calls) :
       calls[i].api = "messages.create"
       => (i = Len(calls) /\ prompt # NoPrompt)
  /\ (text # <<>> \/ outcome.kind # "none")
     => (calls # <<>> /\ calls[Len(calls)].api = "messages.create"
                      /\ gen.svc = "text")
  /\ (Finished /\ resp.status = 200) => outcome.kind = "return"
\* What upstream answered to the first issue of a request.
FirstAnswer(c) ==
  IF c.api = "repos.get" THEN (IF up.meta = 200 THEN "ok" ELSE "error")
  ELSE IF c.api = "messages.create"
       THEN (IF gen.svc = "error" THEN "error" ELSE "ok")
  ELSE IF c.path = <<>> THEN up.root.kind
  ELSE IF \E k \in 1..Len(README_FILES) : README_FILES[k] = c.path
       THEN up.readme[CHOOSE k \in 1..Len(README_FILES) :
                        README_FILES[k] = c.path].kind
  ELSE IF \E k \in 1..Len(CONFIG_FILES) : CONFIG_FILES[k] = c.path
       THEN up.config[CHOOSE k \in 1..Len(CONFIG_FILES) :
                        CONFIG_FILES[k] = c.path].kind
  ELSE EntryNamed(c.path).fetch.kind

C20_MissingKeyIs500 ==
  (/\ ~apiKey
   /\ body.json = "object"
   /\ body.repoUrl.kind = "string"
   /\ AcceptancePattern(body.repoUrl.s)
   /\ body.config.kind = "object")
  => /\ calls = <<>>
     /\ pc \in {"start", "done"}
     /\ Finished => resp = Response(500, MsgServerConfig, Undefined)

\* C20 witness: the class-based POST has answered a valid body 500 without
\* any call.
C20_Witness ==
  /\ impl = "class"
  /\ ~apiKey
  /\ body = GoodBody
  /\ Finished
  /\ calls = <<>>
  /\ resp = Response(500, MsgServerConfig, Undefined)

\* The generation service has been called in this request.
GenerationCalled ==
  calls # <<>> /\ calls[Len(calls)].api = "messages.create"

\* C21: when the first segment of the generation reply is not text, the
\* request ends with the unexpected-response-type error and status 500
\* without the normalizer running; when it is text, the normalizer gets
\* exactly the text of that segment.
C21_FirstSegmentType ==
  GenerationCalled
  => /\ gen.svc = "nontext"
        => /\ Finished
           /\ resp.status = 500
           /\ resp.runOfShow = Undefined
           /\ resp.error \in
                (IF impl = "class" THEN {MsgUnexpectedType}
                 ELSE {MsgUnexpectedType, MsgInlineUnexpected})
           /\ text = <<>>
           /\ ~Normalized
     /\ gen.svc = "text"
        => /\ text = ReplyText(gen)
           /\ pc \in {"parse", "catch", "respond", "done"}
           /\ Finished => Normalized

\* C21 witness: the class-based POST has answered a non-text first segment
\* with the unexpected-response-type error.
C21_Witness ==
  /\ impl = "class"
  /\ GenerationCalled
  /\ gen.svc = "nontext"
  /\ Finished
  /\ resp = Response(500, MsgUnexpectedType, Undefined)
  /\ ~Normalized

\* The field names of the output-format block of the assembled prompt.
FormatFields == {prompt.outputFormat[i] : i \in 1..Len(prompt.outputFormat)}

\* C22: the output-format block of the assembled prompt has the fields
\* qaPredictions and techQuestions when config.includeQA is true and
\* neither of them otherwise; for interview, 5min and includeQA false the
\* prompt has the interview context sentence, the 5min guidance sentence
\* and neither field.
C22_QaFieldsIffIncludeQA ==
  Assembled
  => /\ "qaPredictions" \in FormatFields <=> body.config.includeQA
     /\ "techQuestions" \in FormatFields <=> body.config.includeQA
     /\ {"template", "closingNotes"} \subseteq FormatFields
     /\ (/\ body.config.audience = "interview"
         /\ body.config.timeConstraint = "5min"
         /\ ~body.config.includeQA)
        => /\ prompt.system = AUDIENCE_CONTEXT["interview"]
           /\ prompt.timeGuidance = TIME_GUIDANCE["5min"]
           /\ FormatFields \cap {"qaPredictions", "techQuestions"} = {}

\* C22 witness: PromptGenerator.generate has assembled the prompt of the
\* interview, 5min, no-Q&A configuration.
C22_Witness ==
  /\ impl = "class"
  /\ Assembled
  /\ body.config = Config("object", "interview", "5min", FALSE, FALSE)
  /\ prompt.system = AUDIENCE_CONTEXT["interview"]
  /\ prompt.timeGuidance = TIME_GUIDANCE["5min"]
  /\ prompt.outputFormat = <<"template", "n", "_", "closingNotes">>

\* The responses that a request with body b, upstream answers u and
\* generation reply g gets from handler v when no other request is being
\* processed: the statements of the handler in their order.
SoloValidation(v, b, key) ==
  IF v = "class"
  THEN LET e == validateRequest(b, key)
       IN  IF e = NoErr THEN {} ELSE {ClassCatch(e)}
  ELSE IF b.json = "invalid"
       THEN {InlineOuterCatch(Err("Error", MsgInvalidJson), dev) :
               dev \in BOOLEAN}
  ELSE IF b.json = "null"
       THEN {InlineOuterCatch(Err("TypeError", MsgDestructure), dev) :
               dev \in BOOLEAN}
  ELSE IF b.repoUrl.kind # "string" \/ b.repoUrl.s = <<>>
       THEN {Response(400, MsgUrlRequired, Undefined)}
  ELSE IF b.config.kind # "object"
       THEN {Response(400, MsgConfigRequired, Undefined)}
  ELSE IF ~key THEN {Response(500, MsgServerConfig, Undefined)}
  ELSE {}
SoloAnalysis(v, b, u) ==
  IF ~parseRepoUrl(Trim(b.repoUrl.s)).ok
  THEN {AnalysisFailure(v, Err("Error", MsgInvalidUrl))}
  ELSE IF u.meta # 200 THEN {AnalysisFailure(v, MetadataError(u.meta))}
  ELSE IF u.root.kind = "error"
       THEN {AnalysisFailure(v, Err("Error", MsgUpstream))}
  ELSE {}
SoloGeneration(v, g) ==
  IF g.svc = "nontext"
  THEN IF v = "class" THEN {ClassCatch(Err("Error", MsgUnexpectedType))}
       ELSE {InlineOuterCatch(Err("Error", MsgUnexpectedType), dev) :
               dev \in BOOLEAN}
  ELSE IF g.svc = "error"
       THEN IF v = "class" THEN {ClassCatch(Err("Error", MsgUpstream))}
            ELSE {Response(500, MsgInlineGenFailed, Undefined)}
  ELSE LET d == DirectParse(ReplyText(g))
           f == IF v = "class" THEN Fallback(ReplyText(g))
                ELSE InlineFallback(ReplyText(g))
       IN  IF d.returned THEN {Response(200, "", d.val)}
           ELSE IF f.kind = "return" THEN {Response(200, "", f.val)}
           ELSE IF v = "class" THEN {ClassCatch(f.err)}
           ELSE {Response(500, f.err.message, Undefined)}
SoloResponses(v, b, key, u, g) ==
  IF SoloValidation(v, b, key) # {} THEN SoloValidation(v, b, key)
  ELSE IF SoloAnalysis(v, b, u) # {} THEN SoloAnalysis(v, b, u)
  ELSE SoloGeneration(v, g)

\* C24: of two requests processed in one process with their steps
\* interleaved in any way, each gets the response it gets when it is
\* processed alone with the same upstream answers, and each assembles its
\* prompt from the analysis of its own repository.
C24_RequestsIndependent ==
  /\ Finished => resp \in SoloResponses(impl, body, apiKey, up, gen)
  /\ peer.pc = "done"
     => peer.resp \in SoloResponses(impl, peer.body, apiKey, peer.up, peer.gen)
  /\ analysis.returned => analysis = AnalysisOf(impl, up)
  /\ prompt # NoPrompt
     => prompt = PromptOf(impl, AnalysisOf(impl, up), body.config)
  /\ text # <<>> => text = ReplyText(gen)

\* C24 witness: two requests with different generation replies have both
\* run to their response, one answered 200 and the other 500, each from
\* its own reply text.
C24_Witness ==
  /\ Finished
  /\ peer.pc = "done"
  /\ resp.status = 200
  /\ peer.resp.status = 500
  /\ gen # peer.gen
  /\ gen.svc = "text"
  /\ peer.gen.svc = "text"
  /\ text # peer.text
  /\ peer.text # <<>>

\* The requests of the key-file loop: the calls that follow the metadata
\* request, the root listing request and the README and manifest lookups.
KeyFileRequests ==
  LET before == 2 + Len(fetchReadme(up.readme).calls)
                  + Len(fetchConfigFile(up.config).calls)
  IN  SubSeq(calls, before + 1, Len(calls))
\* The position of entry e in the listing with the directories first and
\* the names in order.
Rank(e) ==
  1 + Cardinality({k \in 1..Len(up.root.entries) :
                     ListedBefore(up.root.entries[k], e)})
\* The conditions C25 names.
KeyFileConditions(e) ==
  /\ Rank(e) <= 30
  /\ e.type = "file"
  /\ isKeyFile(e.name)
  /\ 0 < e.size
  /\ e.size < 50000

\* C25: the key-file loop requests an entry of the root listing exactly
\* when the entry is among the first 30 of the sorted listing, is a file,
\* has a key-file name and a size above 0 and below 50000; it issues at
\* most 30 requests, none of them twice.
C25_KeyFileFanOut ==
  (analysis.returned /\ up.root.kind = "array")
  => LET E == up.root.entries
         req == KeyFileRequests
     IN  /\ \A k \in 1..Len(E) :
              (\E i \in 1..Len(req) : req[i] = Call("repos.getContent", E[k].name))
              <=> KeyFileConditions(E[k])
         /\ \A i \in 1..Len(req) : \E k \in 1..Len(E) : req[i].path = E[k].name
         /\ \A i, j \in 1..Len(req) : req[i] = req[j] => i = j
         /\ Len(req) <= 30

\* C25 witness: a listing of more than 30 eligible key files, of which 30
\* were requested and one that sorts after position 30 was not.
C25_Witness ==
  /\ analysis.returned
  /\ up.root.kind = "array"
  /\ Len(KeyFileRequests) = 30
  /\ \E k \in 1..Len(up.root.entries) :
       LET e == up.root.entries[k]
       IN  /\ Eligible(e)
           /\ Rank(e) > 30
           /\ \A i \in 1..Len(calls) : calls[i].path # e.name

\* C26: the prompt has the CONFIGURATION/DEPENDENCIES part exactly when the
\* analysis has a manifest, and the serialized manifest in it is the first
\* 1000 characters of the serialization, so never longer than 1000.
C26_ManifestBlockBounded ==
  Assembled
  => /\ prompt.manifest.present <=> analysis.packageJson.kind # "null"
     /\ prompt.manifest.len <= 1000
     /\ prompt.manifest.present
        => prompt.manifest.len = Min(StringifyLength(analysis.packageJson), 1000)
     /\ ~prompt.manifest.present => prompt.manifest.len = 0

\* C26 witness: a prompt assembled from an analysis whose manifest is longer
\* than 50000 characters, with 1000 characters of it in the prompt.
C26_Witness ==
  /\ Assembled
  /\ analysis.packageJson.kind = "parsed"
  /\ analysis.packageJson.len > 50000
  /\ prompt.manifest.present
  /\ prompt.manifest.len = 1000

\* C27: whenever parseRepoUrl returns, the owner and the repo it returns
\* are non-empty, also for a URL whose repo segment is exactly .git, and
\* no request to the hosting API names an empty repository.
C27_OwnerAndRepoNonEmpty ==
  /\ (UrlParsed /\ urlRes.ok) => (urlRes.owner # <<>> /\ urlRes.repo # <<>>)
  /\ \A i \in 1..Len(calls) : calls[i].api = "repos.get" => calls[i].path # <<>>

\* C28: the comparator of the listing sort is a consistent ordering: for
\* any two entries of the listing, compare(a, b) and compare(b, a) have
\* opposite signs or are both zero, and the sorted listing is the same
\* when upstream returns the entries in the opposite order.
C28_ComparatorConsistent ==
  (analysis.returned /\ up.root.kind = "array")
  => LET E == up.root.entries
     IN  /\ \A i, j \in 1..Len(E) : compare(E[i], E[j]) = 0 - compare(E[j], E[i])
         /\ analysis.fileStructure
              = ProcessContents([up.root EXCEPT !.entries = Reverse(E)],
                                impl).fileStructure

\* The class-based POST has validated the request and parsed its URL.
ValidatedAndParsed ==
  /\ impl = "class"
  /\ validateRequest(body, apiKey) = NoErr
  /\ pc \notin {"start", "analyze"}
\* The repository names in the requests to the hosting API.
ReposSent == {calls[i].path : i \in {j \in 1..Len(calls) : calls[j].api = "repos.get"}}

\* C29 as stated: a URL that validateRequest accepts is accepted by
\* parseRepoUrl, so the class-based POST never fails with the invalid-URL
\* error, and the owner and the repo sent to the hosting API are the two
\* path segments of the URL.
C29_ValidatedUrlSentAsIs ==
  ValidatedAndParsed
  => /\ urlRes.ok
     /\ resp.error # MsgInvalidUrl
     /\ urlRes.owner = Segment1(GivenUrl)
     /\ urlRes.repo = Segment2(GivenUrl)
     /\ ReposSent \subseteq {Segment2(GivenUrl)}

\* C29 amended: the same, with the repo sent being the second path segment
\* without a trailing .git.
C29_ValidatedUrlSentStripped ==
  ValidatedAndParsed
  => /\ urlRes.ok
     /\ resp.error # MsgInvalidUrl
     /\ urlRes.owner = Segment1(GivenUrl)
     /\ urlRes.repo = StripGit(Segment2(GivenUrl))
     /\ ReposSent \subseteq {StripGit(Segment2(GivenUrl))}

\* C29 witness: the class-based POST has asked the hosting API for the
\* repository a of a validated URL whose second segment is a.git.
C29_Witness ==
  /\ ValidatedAndParsed
  /\ Segment2(GivenUrl) = <<"a", ".git">>
  /\ urlRes = [ok |-> TRUE, owner |-> <<"a">>, repo |-> <<"a">>]
  /\ ReposSent = {<<"a">>}

\* The implementation that the request is not served by.
OtherImpl == IF impl = "class" THEN "inline" ELSE "class"

\* C30: GitHubAnalyzer.analyzeRepository and the inline analyzeRepository
\* return equal analyses (readme, manifest, fileStructure and key files
\* with their path, content and type label) for the same upstream answers,
\* and each fails where the other fails.
C30_AnalyzersAgree ==
  /\ analysis.returned
     => /\ analysis = AnalysisOf(OtherImpl, up)
        /\ SoloAnalysis(OtherImpl, body, up) = {}
  /\ (AnalysisEnded /\ ~analysis.returned)
     => SoloAnalysis(OtherImpl, body, up) # {}

====
